---------------------------- MODULE Spec2Model ----------------------------
(***************************************************************************)
(* A model of the chronos job registry (cronmgr.CronManager), its SQLite   *)
(* persistence (cronmgr/persistence.go) and the checksum-gated backup      *)
(* (backup/backup.go).                                                     *)
(*                                                                         *)
(* Time is an integer count of sub-second units; SubSec units make one     *)
(* second, so time.Time.Unix() is t \div SubSec and time.Unix(s, 0) is     *)
(* s * SubSec.  A nil *time.Time is Nil, the zero time.Time is ZeroTime.   *)
(***************************************************************************)
EXTENDS Integers, Sequences, FiniteSets, TLC

VARIABLES
    jobs,       \* cm.jobs: job id -> Job
    entries,    \* the entries of cm.cron: EntryID -> [job, schedule, next]
    nextID,     \* the last EntryID cm.cron handed out
    running,    \* whether cm.cron has been started
    now,        \* the wall clock
    upd,        \* the UpdateJob call in progress
    exec,       \* the executeJob callbacks in progress
    crashed,    \* the process died of an unrecovered panic
    ret,        \* what the last finished call returned
    db,         \* the rows of the jobs table at the database path
    dbFile,     \* whether the file at the database path exists
    marker,     \* the content of the .last_checksum file
    blob,       \* the remote object
    tmpFile,    \* the state of dbPath + ".tmp"
    bk,         \* the BackupSQLite or RestoreSQLite call in progress, then its result
    bg,         \* cm.syncCancel, the sync loops alive, the StartBackgroundSync
                \* and Stop calls in progress
    req         \* the HandleCreateJob request in progress

registryVars == <<jobs, entries, nextID, running, now, upd, exec, crashed, ret>>
backupVars == <<marker, blob, tmpFile, bk>>
vars == <<jobs, entries, nextID, running, now, upd, exec, crashed, ret, db,
          dbFile, marker, blob, tmpFile, bk, bg, req>>

-----------------------------------------------------------------------------
(* Bounds of the model *)

\* sub-second units in one second
SubSec == 2
\* the clock stops here
MaxTime == 5
\* EntryIDs the scheduler hands out before the model stops adding triggers
MaxEntries == 2
\* sync loops one process makes
MaxLoops == 3
\* random draws of generateUniqueJobID before it falls back (100 in the source)
MaxAttempts == 2
\* the time a run with one trigger goes on to: two fires of an every-second schedule
LateTime == 6

-----------------------------------------------------------------------------
(* Values *)

Nil == -1
ZeroTime == 0
NoEntry == 0

EmailJob == "email"
SyncJob == "sync"
BackupJob == "backup"
CustomJob == "custom"

\* cm.executors: the Types with a registered executor
executors == {EmailJob, SyncJob, BackupJob, CustomJob}

Ids == {"a", "b"}
Names == {"n1", "n2"}
Keys == {"to", "subject", "body", "source", "destination", "path", "command"}
\* what a Config value is: a Go string, or something else
Kinds == {"str", "num"}

EverySecond == "* * * * * *"
EveryOther == "*/2 * * * * *"
BadSchedule == "every day"
EmptySchedule == ""
Schedules == {EverySecond, EveryOther, BadSchedule, EmptySchedule}

-----------------------------------------------------------------------------
(* The executors *)

\* Validate of the email executor without its check of 'subject'
RequiredKeysNoSubject(type) ==
    CASE type = EmailJob  -> {"to"}
      [] type = SyncJob   -> {"source", "destination"}
      [] type = BackupJob -> {"path", "destination"}
      [] type = CustomJob -> {"command"}
      [] OTHER            -> {}

\* the keys each executor's Validate looks up
RequiredKeys(type) ==
    CASE type = EmailJob  -> {"to", "subject"}
      [] type = SyncJob   -> {"source", "destination"}
      [] type = BackupJob -> {"path", "destination"}
      [] type = CustomJob -> {"command"}
      [] OTHER            -> {}

\* Validate: nil iff every looked-up key is present (any value).
Validate(type, config) == RequiredKeys(type) \subseteq DOMAIN config

\* the keys each executor's Execute asserts to be strings
AssertedKeys(type) ==
    CASE type = EmailJob  -> {"to", "subject", "body"}
      [] type = SyncJob   -> {"source", "destination"}
      [] type = BackupJob -> {"path", "destination"}
      [] type = CustomJob -> {"command"}
      [] OTHER            -> {}

\* Execute: config[k].(string) panics on a missing key and on a non-string.
ExecutePanics(type, config) ==
    \E k \in AssertedKeys(type) : k \notin DOMAIN config \/ config[k] # "str"

-----------------------------------------------------------------------------
(* The scheduler (robfig/cron with seconds) and the descriptor *)

\* cm.cron.AddFunc accepts the six-field expressions
Parses(s) == s \in {EverySecond, EveryOther}

\* Schedule.Next(t): the first activation strictly after t
ScheduleNext(s, t) ==
    LET sec == t \div SubSec
        step == IF s = EveryOther THEN 2 ELSE 1
    IN  ((sec \div step) + 1) * step * SubSec

\* cronDescriptor.ToDescription, with AddJob's fallback to the raw expression
Describe(s) == IF Parses(s) THEN "desc(" \o s \o ")" ELSE s

\* the Next a newly added entry gets: computed only by a running scheduler
EntryNext(isRunning, s) == IF isRunning THEN ScheduleNext(s, now) ELSE ZeroTime

\* cm.cron.Entry(id).Next; the zero Entry when id is not registered
EntryNextOf(es, id) == IF id \in DOMAIN es THEN es[id].next ELSE ZeroTime

Without(f, k) == [x \in DOMAIN f \ {k} |-> f[x]]
With(f, k, v) == [x \in DOMAIN f \cup {k} |-> IF x = k THEN v ELSE f[x]]


-----------------------------------------------------------------------------
(* Job records and the inputs the callers hand in *)

\* a Job as a caller builds it: no description, no handle
NewJob(id, name, type, schedule, enabled, config, lastRun, nextRun) ==
    [ID |-> id, Name |-> name, Type |-> type, Schedule |-> schedule,
     ScheduleDesc |-> "", Enabled |-> enabled, Config |-> config,
     LastRun |-> lastRun, NextRun |-> nextRun, CronEntryID |-> NoEntry]

Strs(K) == [k \in K |-> "str"]

Configs == UNION {[K -> {"str"}] : K \in SUBSET Keys}

\* every Type (and one that has no executor) with every set of Config keys
AllInputs ==
    {NewJob("a", "n1", t, s, e, c, Nil, Nil) :
        t \in executors \cup {"report"}, s \in Schedules \ {EveryOther},
        e \in BOOLEAN, c \in Configs}

\* the definitions the callers of the registry use
JobInputs ==
    {NewJob(i, "n1", CustomJob, EverySecond, TRUE, Strs({"command"}), Nil, Nil) :
        i \in Ids}
    \cup {NewJob("a", "n2", SyncJob, EveryOther, FALSE,
                 Strs({"source", "destination"}), Nil, Nil),
          NewJob("a", "n1", BackupJob, BadSchedule, TRUE,
                 Strs({"path", "destination"}), Nil, Nil),
          NewJob("b", "n2", EmailJob, EverySecond, TRUE, Strs({"to"}), Nil, Nil),
          NewJob("b", "n2", "report", EverySecond, TRUE, Strs({"command"}), Nil, Nil)}

\* the new definitions the callers of UpdateJob hand in
UpdateInputs ==
    {NewJob("", "n2", CustomJob, EveryOther, TRUE, Strs({"command"}), Nil, Nil),
     NewJob("b", "n1", BackupJob, BadSchedule, TRUE,
            Strs({"path", "destination"}), Nil, Nil),
     NewJob("a", "n1", SyncJob, EverySecond, TRUE, Strs({"source"}), Nil, Nil),
     NewJob("a", "n1", "report", EverySecond, TRUE, Strs({"command"}), Nil, Nil),
     NewJob("a", "n1", CustomJob, EmptySchedule, FALSE, Strs({"command"}), Nil, Nil)}

\* the jobs of the running system: two that fire every second, one disabled
RunInputs ==
    {NewJob("a", "n2", CustomJob, EverySecond, TRUE, Strs({"command"}), Nil, Nil),
     NewJob("b", "n1", CustomJob, EverySecond, TRUE, Strs({"command"}), Nil, Nil),
     NewJob("b", "n1", SyncJob, EveryOther, FALSE,
            Strs({"source", "destination"}), Nil, Nil)}

-----------------------------------------------------------------------------
(* The registry operations, as functions of the registry and the scheduler *)

\* a manager: its map, its scheduler, and the error of the call made on it
Manager(js, es, n, r, e) ==
    [jobs |-> js, entries |-> es, nextID |-> n, running |-> r, err |-> e]

ErrNone == "nil"
ErrType == "unknown job type"
ErrConfig == "job configuration validation failed"
ErrSchedule == "failed to schedule job"
ErrNotFound == "job not found"
ErrEmpty == "schedule cannot be empty"
ErrPersistence == "database error"
ErrExecute == "job execution failed"

\* AddJob with the insertion moved above the scheduling
AddJobOnInsertFirst(st, j) ==
    IF j.Type \notin executors THEN [st EXCEPT !.err = ErrType]
    ELSE IF ~Validate(j.Type, j.Config) THEN [st EXCEPT !.err = ErrConfig]
    ELSE IF j.Enabled
    THEN IF ~Parses(j.Schedule)
         THEN Manager(With(st.jobs, j.ID, [j EXCEPT !.ScheduleDesc = Describe(j.Schedule)]),
                  st.entries, st.nextID, st.running, ErrSchedule)
         ELSE LET id == st.nextID + 1
                  nxt == EntryNext(st.running, j.Schedule)
                  job == [j EXCEPT !.ScheduleDesc = Describe(j.Schedule),
                                   !.CronEntryID = id, !.NextRun = nxt]
              IN  Manager(With(st.jobs, j.ID, job),
                      With(st.entries, id,
                           [job |-> j.ID, schedule |-> j.Schedule, next |-> nxt]),
                      id, st.running, ErrNone)
    ELSE Manager(With(st.jobs, j.ID, [j EXCEPT !.ScheduleDesc = Describe(j.Schedule)]),
             st.entries, st.nextID, st.running, ErrNone)

\* AddJob that registers the trigger and leaves NextRun as the caller set it
AddJobOnNoNextRun(st, j) ==
    IF j.Type \notin executors THEN [st EXCEPT !.err = ErrType]
    ELSE IF ~Validate(j.Type, j.Config) THEN [st EXCEPT !.err = ErrConfig]
    ELSE IF j.Enabled
    THEN IF ~Parses(j.Schedule) THEN [st EXCEPT !.err = ErrSchedule]
         ELSE LET id == st.nextID + 1
                  job == [j EXCEPT !.ScheduleDesc = Describe(j.Schedule),
                                   !.CronEntryID = id]
              IN  Manager(With(st.jobs, j.ID, job),
                      With(st.entries, id,
                           [job |-> j.ID, schedule |-> j.Schedule,
                            next |-> EntryNext(st.running, j.Schedule)]),
                      id, st.running, ErrNone)
    ELSE Manager(With(st.jobs, j.ID, [j EXCEPT !.ScheduleDesc = Describe(j.Schedule)]),
             st.entries, st.nextID, st.running, ErrNone)

\* AddJob(job) on registry st
AddJobOn(st, j) ==
    IF j.Type \notin executors THEN [st EXCEPT !.err = ErrType]
    ELSE IF ~Validate(j.Type, j.Config) THEN [st EXCEPT !.err = ErrConfig]
    ELSE IF j.Enabled
    THEN IF ~Parses(j.Schedule) THEN [st EXCEPT !.err = ErrSchedule]
         ELSE LET id == st.nextID + 1
                  nxt == EntryNext(st.running, j.Schedule)
                  job == [j EXCEPT !.ScheduleDesc = Describe(j.Schedule),
                                   !.CronEntryID = id, !.NextRun = nxt]
              IN  Manager(With(st.jobs, j.ID, job),
                      With(st.entries, id,
                           [job |-> j.ID, schedule |-> j.Schedule, next |-> nxt]),
                      id, st.running, ErrNone)
    ELSE Manager(With(st.jobs, j.ID, [j EXCEPT !.ScheduleDesc = Describe(j.Schedule)]),
             st.entries, st.nextID, st.running, ErrNone)

\* RemoveJob without the call of cm.cron.Remove
RemoveJobOnKeepsTrigger(st, id) ==
    IF id \notin DOMAIN st.jobs THEN [st EXCEPT !.err = ErrNotFound]
    ELSE Manager(Without(st.jobs, id), st.entries, st.nextID, st.running, ErrNone)

\* RemoveJob(jobID) on registry st
RemoveJobOn(st, id) ==
    IF id \notin DOMAIN st.jobs THEN [st EXCEPT !.err = ErrNotFound]
    ELSE Manager(Without(st.jobs, id),
             IF st.jobs[id].CronEntryID # NoEntry
             THEN Without(st.entries, st.jobs[id].CronEntryID)
             ELSE st.entries,
             st.nextID, st.running, ErrNone)

\* the checks UpdateJob makes before it removes anything
UpdateJobCheck(def) ==
    IF def.Type \notin executors THEN ErrType
    ELSE IF ~Validate(def.Type, def.Config) THEN ErrConfig
    ELSE IF def.Schedule = "" THEN ErrEmpty
    ELSE ErrNone

\* the manager of the running process
Here == Manager(jobs, entries, nextID, running, ErrNone)

\* NewCronManager()
Fresh == Manager(<<>>, <<>>, 0, FALSE, ErrNone)

\* whether the model lets AddJob(j) run: the scheduler's ids are bounded
CanAdd(j) == AddJobOn(Here, j).nextID <= MaxEntries

\* the callbacks that hold cm.mu for reading while their Execute runs; a
\* caller of cm.mu.Lock() waits for them
Readers == {w \in DOMAIN exec : exec[w].pc = "execute" /\ exec[w].lock = "read"}

Idle == [pc |-> "idle"]
\* a finished call: its name, its id argument, its error, its Job argument and
\* the jobs it returned
Returned(op, id, err, arg, val) ==
    [op |-> op, id |-> id, err |-> err, arg |-> arg, val |-> val]


-----------------------------------------------------------------------------
(* The state after NewCronManager(), with no database file, no marker and   *)
(* nothing in flight                                                        *)

\* a file or remote object that does not exist; one that does is <<content>>
NoFile == <<>>

\* a BackupSQLite or RestoreSQLite call: where it is, the digest it computed,
\* whether it called store.UploadFile, and the error it returned
Call(pc, op, sum, sent, err) ==
    [pc |-> pc, op |-> op, sum |-> sum, sent |-> sent, err |-> err]

NoCall == Call("idle", "none", NoFile, FALSE, "nil")

\* no HandleCreateJob request is between its two calls
NoReq == [pc |-> "idle"]

\* the goroutines that call StartBackgroundSync and Stop
Callers == {"c1", "c2"}

\* no sync loop: cm.syncCancel is nil (0), no loop goroutine is alive, none was
\* made, no caller is inside StartBackgroundSync or Stop; args holds what each
\* loop's closure captured, tickers the loops that made a backup ticker, busy
\* the loop that is inside BackupSQLite
NoSync ==
    [cancel |-> 0, loops |-> <<>>, made |-> 0,
     calls |-> [c \in Callers |-> [pc |-> "idle", err |-> "nil"]],
     args |-> <<>>, tickers |-> {}, busy |-> 0]

\* dbPath + ".tmp": absent, holding a part of the download, or all of it
NoTmp == "absent"
PartialTmp == "partial"
WholeTmp == "whole"

Init ==
    /\ jobs = <<>>
    /\ entries = <<>>
    /\ nextID = 0
    /\ running = FALSE
    /\ now = SubSec
    /\ upd = Idle
    /\ exec = <<>>
    /\ crashed = FALSE
    /\ ret = Returned("none", "", ErrNone, <<>>, <<>>)
    /\ db = <<>>
    /\ dbFile = FALSE
    /\ marker = NoFile
    /\ blob = NoFile
    /\ tmpFile = NoTmp
    /\ bk = NoCall
    /\ bg = NoSync
    /\ req = NoReq

Install(st) ==
    /\ jobs' = st.jobs
    /\ entries' = st.entries
    /\ nextID' = st.nextID

-----------------------------------------------------------------------------
(* The calls of the registry; each holds cm.mu for its whole body *)

AddJob(j) ==
    /\ ~crashed
    /\ Readers = {}
    /\ CanAdd(j)
    /\ LET st == AddJobOn(Here, j)
       IN  /\ Install(st)
           /\ ret' = Returned("AddJob", j.ID, st.err, <<j>>, <<>>)
    /\ UNCHANGED <<running, now, upd, exec, crashed, db, dbFile, backupVars, bg, req>>

RemoveJob(id) ==
    /\ ~crashed
    /\ Readers = {}
    /\ LET st == RemoveJobOn(Here, id)
       IN  /\ Install(st)
           /\ ret' = Returned("RemoveJob", id, st.err, <<>>, <<>>)
    /\ UNCHANGED <<running, now, upd, exec, crashed, db, dbFile, backupVars, bg, req>>

GetJob(id) ==
    /\ ~crashed
    /\ ret' = IF id \in DOMAIN jobs
              THEN Returned("GetJob", id, ErrNone, <<>>, <<jobs[id]>>)
              ELSE Returned("GetJob", id, ErrNotFound, <<>>, <<>>)
    /\ UNCHANGED <<jobs, entries, nextID, running, now, upd, exec, crashed, db, dbFile,
                   backupVars, bg, req>>

(* UpdateJob takes the lock three times: for the executor lookup, inside    *)
(* RemoveJob and inside AddJob; other calls may run in between.  upd.old    *)
(* remembers the job its RemoveJob evicted.                                 *)

UpdateJobBegin(id, def) ==
    /\ ~crashed
    /\ upd = Idle
    /\ LET err == UpdateJobCheck(def)
       IN  IF err # ErrNone
           THEN /\ ret' = Returned("UpdateJob", id, err, <<def>>, <<>>)
                /\ upd' = upd
           ELSE /\ upd' = [pc |-> "remove", id |-> id, def |-> def]
                /\ ret' = ret
    /\ UNCHANGED <<jobs, entries, nextID, running, now, exec, crashed, db, dbFile,
                   backupVars, bg, req>>

UpdateJobRemove ==
    /\ ~crashed
    /\ Readers = {}
    /\ upd.pc = "remove"
    /\ LET st == RemoveJobOn(Here, upd.id)
       IN  /\ Install(st)
           /\ IF st.err # ErrNone
              THEN /\ ret' = Returned("UpdateJob", upd.id, st.err, <<upd.def>>, <<>>)
                   /\ upd' = Idle
              ELSE /\ upd' = [pc |-> "add", id |-> upd.id, def |-> upd.def,
                              old |-> jobs[upd.id]]
                   /\ ret' = ret
    /\ UNCHANGED <<running, now, exec, crashed, db, dbFile, backupVars, bg, req>>

\* UpdateJob handing newDef to AddJob under the ID it came with
UpdateJobAddKeepsID ==
    /\ ~crashed
    /\ Readers = {}
    /\ upd.pc = "add"
    /\ CanAdd(upd.def)
    /\ LET st == AddJobOn(Here, upd.def)
       IN  /\ Install(st)
           /\ ret' = Returned("UpdateJob", upd.id, st.err, <<upd.def>>, <<>>)
    /\ upd' = Idle
    /\ UNCHANGED <<running, now, exec, crashed, db, dbFile, backupVars, bg, req>>

UpdateJobAdd ==
    /\ ~crashed
    /\ Readers = {}
    /\ upd.pc = "add"
    /\ CanAdd(upd.def)
    /\ LET st == AddJobOn(Here, [upd.def EXCEPT !.ID = upd.id])
       IN  /\ Install(st)
           /\ ret' = Returned("UpdateJob", upd.id, st.err, <<upd.def>>, <<>>)
    /\ upd' = Idle
    /\ UNCHANGED <<running, now, exec, crashed, db, dbFile, backupVars, bg, req>>


-----------------------------------------------------------------------------
(* GetAllJobs *)

\* Go's < on the Names of the model
NameRank(n) == IF n = "n1" THEN 1 ELSE 2

\* the less function GetAllJobs hands to sort.Slice
Less(x, y) ==
    IF x.LastRun = Nil /\ y.LastRun = Nil THEN NameRank(x.Name) < NameRank(y.Name)
    ELSE IF x.LastRun = Nil THEN FALSE
    ELSE IF y.LastRun = Nil THEN TRUE
    ELSE x.LastRun > y.LastRun

\* the orders in which ranging over the map can append its jobs
Listings(js) ==
    {[i \in 1..Cardinality(DOMAIN js) |-> js[f[i]]] :
        f \in {g \in [1..Cardinality(DOMAIN js) -> DOMAIN js] :
                  \A i, k \in 1..Cardinality(DOMAIN js) : i # k => g[i] # g[k]}}

\* sort.Slice is not stable: it may return any listing that less leaves sorted
SortSlice(ls) ==
    {r \in ls : \A i, k \in 1..Len(r) : i < k => ~Less(r[k], r[i])}

GetAllJobs ==
    /\ ~crashed
    /\ \E r \in SortSlice(Listings(jobs)) :
           ret' = Returned("GetAllJobs", "", ErrNone, <<>>, r)
    /\ UNCHANGED <<jobs, entries, nextID, running, now, upd, exec, crashed, db, dbFile,
                   backupVars, bg, req>>

-----------------------------------------------------------------------------
(* The scheduler's loop and the dispatch callback *)

\* the goroutines the scheduler runs callbacks on
Workers == {"w1"}

\* cm.cron.Start(): the loop computes every entry's Next
CronStart(es) == [e \in DOMAIN es |-> [es[e] EXCEPT !.next = ScheduleNext(es[e].schedule, now)]]

\* an entry is due: the loop starts its callback and moves its Next on
Fire(e, w) ==
    /\ ~crashed
    /\ running
    /\ e \in DOMAIN entries
    /\ w \notin DOMAIN exec
    /\ entries[e].next <= now
    /\ entries' = [entries EXCEPT ![e].next = ScheduleNext(entries[e].schedule, now)]
    /\ exec' = With(exec, w, [pc |-> "snapshot", id |-> entries[e].job])
    /\ UNCHANGED <<jobs, nextID, running, now, upd, crashed, ret, db, dbFile, backupVars, bg, req>>

\* executeJob keeping the read lock over Execute
ExecSnapshotKeepsLock(w) ==
    /\ ~crashed
    /\ w \in DOMAIN exec
    /\ exec[w].pc = "snapshot"
    /\ LET id == exec[w].id
       IN  exec' = IF id \in DOMAIN jobs /\ jobs[id].Enabled
                   THEN With(exec, w, [pc |-> "execute", id |-> id,
                                       Name |-> jobs[id].Name,
                                       Type |-> jobs[id].Type,
                                       Config |-> jobs[id].Config,
                                       lock |-> "read"])
                   ELSE Without(exec, w)
    /\ UNCHANGED <<jobs, entries, nextID, running, now, upd, crashed, ret, db, dbFile,
                   backupVars, bg, req>>

\* executeJob going on to Execute without looking at Enabled
ExecSnapshotIgnoresEnabled(w) ==
    /\ ~crashed
    /\ w \in DOMAIN exec
    /\ exec[w].pc = "snapshot"
    /\ LET id == exec[w].id
       IN  exec' = IF id \in DOMAIN jobs
                   THEN With(exec, w, [pc |-> "execute", id |-> id,
                                       Name |-> jobs[id].Name,
                                       Type |-> jobs[id].Type,
                                       Config |-> jobs[id].Config,
                                       lock |-> "none"])
                   ELSE Without(exec, w)
    /\ UNCHANGED <<jobs, entries, nextID, running, now, upd, crashed, ret, db, dbFile,
                   backupVars, bg, req>>

\* executeJob handing every job to the executor of custom jobs
ExecSnapshotOneExecutor(w) ==
    /\ ~crashed
    /\ w \in DOMAIN exec
    /\ exec[w].pc = "snapshot"
    /\ LET id == exec[w].id
       IN  exec' = IF id \in DOMAIN jobs /\ jobs[id].Enabled
                   THEN With(exec, w, [pc |-> "execute", id |-> id,
                                       Name |-> jobs[id].Name,
                                       Type |-> CustomJob,
                                       Config |-> jobs[id].Config,
                                       lock |-> "none"])
                   ELSE Without(exec, w)
    /\ UNCHANGED <<jobs, entries, nextID, running, now, upd, crashed, ret, db, dbFile,
                   backupVars, bg, req>>

\* executeJob, under the read lock: copy the job, give up if absent or disabled
ExecSnapshot(w) ==
    /\ ~crashed
    /\ w \in DOMAIN exec
    /\ exec[w].pc = "snapshot"
    /\ LET id == exec[w].id
       IN  exec' = IF id \in DOMAIN jobs /\ jobs[id].Enabled
                   THEN With(exec, w, [pc |-> "execute", id |-> id,
                                       Name |-> jobs[id].Name,
                                       Type |-> jobs[id].Type,
                                       Config |-> jobs[id].Config,
                                       lock |-> "none"])
                   ELSE Without(exec, w)
    /\ UNCHANGED <<jobs, entries, nextID, running, now, upd, crashed, ret, db, dbFile,
                   backupVars, bg, req>>

\* the tail writing the job back when it finds none under the id
PostExecuteReinserts(js, es, id) ==
    IF id \notin DOMAIN js
    THEN With(js, id, NewJob(id, "", CustomJob, EverySecond, FALSE, <<>>, now, Nil))
    ELSE [js EXCEPT ![id].LastRun = now,
                    ![id].NextRun = IF js[id].CronEntryID # NoEntry
                                    THEN EntryNextOf(es, js[id].CronEntryID)
                                    ELSE js[id].NextRun]

\* the write-locked tail of executeJob
PostExecute(js, es, id) ==
    IF id \notin DOMAIN js THEN js
    ELSE [js EXCEPT ![id].LastRun = now,
                    ![id].NextRun = IF js[id].CronEntryID # NoEntry
                                    THEN EntryNextOf(es, js[id].CronEntryID)
                                    ELSE js[id].NextRun]

\* executeJob from Execute on: Execute without a lock (a panic in it is not
\* recovered and ends the process), then the update under the write lock
ExecFinish(w) ==
    /\ ~crashed
    /\ Readers \subseteq {w}
    /\ w \in DOMAIN exec
    /\ exec[w].pc = "execute"
    /\ IF ExecutePanics(exec[w].Type, exec[w].Config)
       THEN /\ crashed' = TRUE
            /\ UNCHANGED <<jobs, exec>>
       ELSE /\ jobs' = PostExecute(jobs, entries, exec[w].id)
            /\ exec' = Without(exec, w)
            /\ crashed' = crashed
    /\ UNCHANGED <<entries, nextID, running, now, upd, ret, db, dbFile, backupVars, bg, req>>

\* executeJob when Execute returns an error and does not update the job
ExecFailedNoUpdate(w) ==
    /\ ~crashed
    /\ Readers \subseteq {w}
    /\ w \in DOMAIN exec
    /\ exec[w].pc = "execute"
    /\ ~ExecutePanics(exec[w].Type, exec[w].Config)
    /\ exec' = Without(exec, w)
    /\ ret' = Returned("Execute", exec[w].id, ErrExecute, <<>>, <<>>)
    /\ UNCHANGED <<jobs, entries, nextID, running, now, upd, crashed, db, dbFile,
                   backupVars, bg, req>>

\* executeJob from Execute on when Execute returns an error: the error is
\* logged, then the update under the write lock
ExecFailed(w) ==
    /\ ~crashed
    /\ Readers \subseteq {w}
    /\ w \in DOMAIN exec
    /\ exec[w].pc = "execute"
    /\ ~ExecutePanics(exec[w].Type, exec[w].Config)
    /\ jobs' = PostExecute(jobs, entries, exec[w].id)
    /\ exec' = Without(exec, w)
    /\ ret' = Returned("Execute", exec[w].id, ErrExecute, <<>>, <<>>)
    /\ UNCHANGED <<entries, nextID, running, now, upd, crashed, db, dbFile,
                   backupVars, bg, req>>

\* the clock moves on, up to a limit
Pass(limit) ==
    /\ ~crashed
    /\ now < limit
    /\ now' = now + 1
    /\ UNCHANGED <<jobs, entries, nextID, running, upd, exec, crashed, ret, db, dbFile,
                   backupVars, bg, req>>

Tick == Pass(MaxTime)


-----------------------------------------------------------------------------
(* Persistence: the jobs table, one row per id *)

\* time.Time.Unix(): whole seconds, the rest dropped
Unix(t) == t \div SubSec
\* time.Unix(sec, 0)
FromUnix(sec) == sec * SubSec

boolToInt(b) == IF b THEN 1 ELSE 0
intToBool(i) == i # 0

\* json.Marshal of a Config: the text holds its members
Marshal(config) == {<<k, config[k]>> : k \in DOMAIN config}
\* json.Unmarshal into a map[string]any
Unmarshal(text) == [k \in {m[1] : m \in text} |-> (CHOOSE m \in text : m[1] = k)[2]]

\* a config_json that is not JSON
BadJSON == {<<"not json">>}

\* json.Unmarshal returns no error, on a text that is not empty
Decodes(text) == text # {} /\ \A m \in text : Len(m) = 2

\* the values SaveAllJobsToDB binds for one job; NULL is Nil
RowOf(job) ==
    [id |-> job.ID, name |-> job.Name, type |-> job.Type, schedule |-> job.Schedule,
     schedule_desc |-> job.ScheduleDesc, enabled |-> boolToInt(job.Enabled),
     config_json |-> Marshal(job.Config),
     last_run |-> IF job.LastRun # Nil THEN Unix(job.LastRun) ELSE Nil,
     next_run |-> IF job.NextRun # Nil THEN Unix(job.NextRun) ELSE Nil]

\* the Job LoadJobsFromDB builds from one row
JobOf(row) ==
    [ID |-> row.id, Name |-> row.name, Type |-> row.type, Schedule |-> row.schedule,
     ScheduleDesc |-> row.schedule_desc, Enabled |-> intToBool(row.enabled),
     Config |-> IF Decodes(row.config_json) THEN Unmarshal(row.config_json) ELSE <<>>,
     LastRun |-> IF row.last_run # Nil THEN FromUnix(row.last_run) ELSE Nil,
     NextRun |-> IF row.next_run # Nil THEN FromUnix(row.next_run) ELSE Nil,
     CronEntryID |-> NoEntry]

\* INSERT ... ON CONFLICT(id) DO UPDATE for every job of the registry: rows of
\* other ids stay
Upsert(rows, js) ==
    [i \in DOMAIN rows \cup DOMAIN js |-> IF i \in DOMAIN js THEN RowOf(js[i]) ELSE rows[i]]

RECURSIVE LoadRowsStopAtFirst(_, _, _)
\* the loop as it was before it collected its errors: the first row AddJob
\* refuses ends the load
LoadRowsStopAtFirst(st, rows, order) ==
    IF order = <<>> THEN st
    ELSE LET r == AddJobOn([st EXCEPT !.err = ErrNone], JobOf(rows[Head(order)]))
         IN  IF r.err # ErrNone THEN r
             ELSE LoadRowsStopAtFirst(r, rows, Tail(order))

RECURSIVE LoadRows(_, _, _)
\* the loop of LoadJobsFromDB over the rows in the order the query yields them
LoadRows(st, rows, order) ==
    IF order = <<>> THEN st
    ELSE LET r == AddJobOn([st EXCEPT !.err = ErrNone], JobOf(rows[Head(order)]))
         IN  LoadRows([r EXCEPT !.err = IF st.err # ErrNone THEN st.err ELSE r.err],
                      rows, Tail(order))

RECURSIVE LoadErrors(_, _, _)
\* loadErrors when the loop is over: the errors of the rows AddJob refused
LoadErrors(st, rows, order) ==
    IF order = <<>> THEN <<>>
    ELSE LET r == AddJobOn([st EXCEPT !.err = ErrNone], JobOf(rows[Head(order)]))
         IN  (IF r.err # ErrNone THEN <<r.err>> ELSE <<>>)
                \o LoadErrors([r EXCEPT !.err = ErrNone], rows, Tail(order))

\* what LoadJobsFromDB returns: nil (<<>>), or the one error that carries
\* loadedCount, len(loadErrors) and loadErrors[0]
LoadJobsFromDB(st, rows, order) ==
    LET loadErrors == LoadErrors(st, rows, order)
    IN  IF Len(loadErrors) > 0
        THEN <<[loaded |-> Len(order) - Len(loadErrors),
                errors |-> Len(loadErrors),
                first |-> loadErrors[1]]>>
        ELSE <<>>

\* the orders a SELECT without ORDER BY may yield the rows in
RowOrders(rows) ==
    {f \in [1..Cardinality(DOMAIN rows) -> DOMAIN rows] :
        \A i, k \in 1..Cardinality(DOMAIN rows) : i # k => f[i] # f[k]}

\* SaveAllJobsToDB committing the rows written before the statement that fails
SaveAllJobsToDBNoRollback ==
    /\ ~crashed
    /\ \E ok \in BOOLEAN :
          IF ok
          THEN /\ db' = Upsert(db, jobs)
               /\ dbFile' = TRUE
               /\ ret' = Returned("SaveAllJobsToDB", "", ErrNone, <<>>, <<>>)
          ELSE /\ \E done \in SUBSET DOMAIN jobs :
                     db' = Upsert(db, [i \in done |-> jobs[i]])
               /\ dbFile' = TRUE
               /\ ret' = Returned("SaveAllJobsToDB", "", ErrPersistence, <<>>, <<>>)
    /\ UNCHANGED <<jobs, entries, nextID, running, now, upd, exec, crashed,
                   backupVars, bg, req>>

\* one transaction of SaveAllJobsToDB over the registry as it is, with its
\* outcome
SaveAllJobsToDB ==
    /\ ~crashed
    /\ \E ok \in BOOLEAN :
          IF ok
          THEN /\ db' = Upsert(db, jobs)
               /\ dbFile' = TRUE
               /\ ret' = Returned("SaveAllJobsToDB", "", ErrNone, <<>>, <<>>)
          ELSE /\ UNCHANGED <<db, dbFile>>
               /\ ret' = Returned("SaveAllJobsToDB", "", ErrPersistence, <<>>, <<>>)
    /\ UNCHANGED <<jobs, entries, nextID, running, now, upd, exec, crashed,
                   backupVars, bg, req>>

\* the rows Start() finds: os.Stat(dbPath) fails when there is no file
Stored == IF dbFile THEN db ELSE <<>>

\* Start() on registry st: load the database file if there is one, then start
\* the scheduler
StartOn(st, order) ==
    LET loaded == LoadRows(st, Stored, order)
    IN  /\ jobs' = loaded.jobs
        /\ entries' = CronStart(loaded.entries)
        /\ nextID' = loaded.nextID
        /\ running' = TRUE
        /\ ret' = Returned("Start", "", loaded.err, <<>>,
                           LoadJobsFromDB(st, Stored, order))

Start ==
    /\ ~crashed
    /\ ~running
    /\ \E order \in RowOrders(Stored) :
          /\ LoadRows(Here, Stored, order).nextID <= MaxEntries
          /\ StartOn(Here, order)
    /\ UNCHANGED <<now, upd, exec, crashed, db, dbFile, backupVars, bg, req>>

\* the process ends (killed, or dead of a panic) and main() runs again:
\* NewCronManager() and Start(), which loads before the scheduler runs
Restart ==
    /\ running
    /\ upd' = Idle
    /\ exec' = <<>>
    /\ crashed' = FALSE
    /\ \E order \in RowOrders(Stored) : StartOn(Fresh, order)
    /\ bg' = NoSync
    /\ req' = NoReq
    /\ UNCHANGED <<now, db, dbFile, backupVars>>

-----------------------------------------------------------------------------
(* backup.BackupSQLite and backup.RestoreSQLite over the database file, the  *)
(* marker beside it and the remote object.  The content of the database     *)
(* file is its rows.                                                        *)

ErrOpen == "open db"
ErrUpload == "upload"
ErrDownload == "download"
ErrWrite == "write file"

\* the hex MD5 digest of a content: never the empty string
fileChecksum(content) == <<"md5", content>>

\* the marker's content, or "" (NoFile) when it cannot be read
readLocalChecksum == marker

\* the comparison skipping as well when there is no marker
BackupSkippedWithoutMarker(curChecksum, lastChecksum) ==
    curChecksum = lastChecksum \/ lastChecksum = NoFile

\* "Backup skipped (no change detected)"
BackupSkipped(curChecksum, lastChecksum) == curChecksum = lastChecksum

\* BackupSQLite up to its comparison: open the file, digest it, read the marker
BackupSQLite ==
    /\ running
    /\ ~crashed
    /\ bk.pc \in {"idle", "done"}
    /\ IF ~dbFile
       THEN bk' = Call("done", "BackupSQLite", NoFile, FALSE, ErrOpen)
       ELSE LET curChecksum == fileChecksum(db)
            IN  IF BackupSkipped(curChecksum, readLocalChecksum)
                THEN bk' = Call("done", "BackupSQLite", curChecksum, FALSE, ErrNone)
                ELSE bk' = Call("upload", "BackupSQLite", curChecksum, FALSE, ErrNone)
    /\ UNCHANGED <<registryVars, bg, req, db, dbFile, marker, blob, tmpFile>>

\* store.UploadFile of the open file as it is now, then the marker
BackupUpload ==
    /\ bk.pc = "upload"
    /\ \E ok \in BOOLEAN :
          IF ok
          THEN /\ blob' = <<db>>
               /\ marker' = bk.sum
               /\ bk' = Call("done", "BackupSQLite", bk.sum, TRUE, ErrNone)
          ELSE /\ UNCHANGED <<blob, marker>>
               /\ bk' = Call("done", "BackupSQLite", bk.sum, TRUE, ErrUpload)
    /\ UNCHANGED <<registryVars, bg, req, db, dbFile, tmpFile>>

\* main() before the manager exists: store.DownloadFile, then os.Create of the
\* temporary file
RestoreSQLite ==
    /\ ~running
    /\ bk.pc = "idle"
    /\ \E ok \in BOOLEAN :
          IF blob # NoFile /\ ok
          THEN /\ tmpFile' = PartialTmp
               /\ bk' = Call("copy", "RestoreSQLite", NoFile, FALSE, ErrNone)
          ELSE /\ tmpFile' = tmpFile
               /\ bk' = Call("done", "RestoreSQLite", NoFile, FALSE, ErrDownload)
    /\ UNCHANGED <<registryVars, bg, req, db, dbFile, marker, blob>>

\* the copy written straight to the database path
RestoreCopyInPlace ==
    /\ bk.pc = "copy"
    /\ \E ok \in BOOLEAN :
          IF ok
          THEN /\ db' = blob[1]
               /\ bk' = Call("rename", "RestoreSQLite", fileChecksum(blob[1]), FALSE, ErrNone)
          ELSE /\ db' = <<>>
               /\ bk' = Call("done", "RestoreSQLite", NoFile, FALSE, ErrWrite)
    /\ dbFile' = TRUE
    /\ UNCHANGED <<registryVars, bg, req, tmpFile, marker, blob>>

\* io.Copy of the download into the temporary file and the digest
RestoreCopy ==
    /\ bk.pc = "copy"
    /\ \E ok \in BOOLEAN :
          IF ok
          THEN /\ tmpFile' = WholeTmp
               /\ bk' = Call("rename", "RestoreSQLite", fileChecksum(blob[1]), FALSE, ErrNone)
          ELSE /\ tmpFile' = PartialTmp
               /\ bk' = Call("done", "RestoreSQLite", NoFile, FALSE, ErrWrite)
    /\ UNCHANGED <<registryVars, bg, req, db, dbFile, marker, blob>>

\* the replacement done by rewriting the database path in place
RestoreRenameInPlace ==
    /\ bk.pc = "rename"
    /\ db' = <<>>
    /\ dbFile' = TRUE
    /\ tmpFile' = WholeTmp
    /\ bk' = [bk EXCEPT !.pc = "mark"]
    /\ UNCHANGED <<registryVars, bg, req, marker, blob>>

\* os.Rename of the temporary file over the database path
RestoreRename ==
    /\ bk.pc = "rename"
    /\ db' = blob[1]
    /\ dbFile' = TRUE
    /\ tmpFile' = NoTmp
    /\ bk' = [bk EXCEPT !.pc = "mark"]
    /\ UNCHANGED <<registryVars, bg, req, marker, blob>>

\* writeLocalChecksum of the downloaded content's digest, and the return
RestoreMark ==
    /\ bk.pc = "mark"
    /\ marker' = bk.sum
    /\ bk' = [bk EXCEPT !.pc = "done"]
    /\ UNCHANGED <<registryVars, bg, req, db, dbFile, blob, tmpFile>>

\* main() after RestoreSQLite returned, whatever it returned: NewCronManager()
\* and Start()
MainStart ==
    /\ bk.pc = "done"
    /\ bk.op = "RestoreSQLite"
    /\ Start

\* the process ends, while it serves or while main() restores: the manager and
\* any call in flight are gone, the files and the remote object stay
Exit ==
    /\ running \/ bk.pc # "idle"
    /\ jobs' = <<>>
    /\ entries' = <<>>
    /\ nextID' = 0
    /\ running' = FALSE
    /\ upd' = Idle
    /\ exec' = <<>>
    /\ crashed' = FALSE
    /\ ret' = Returned("none", "", ErrNone, <<>>, <<>>)
    /\ bk' = NoCall
    /\ bg' = NoSync
    /\ req' = NoReq
    /\ UNCHANGED <<now, db, dbFile, marker, blob, tmpFile>>

-----------------------------------------------------------------------------
(* StartBackgroundSync, the loop it starts, and Stop.  Neither call takes   *)
(* cm.mu: cm.syncCancel and cm.syncWg are read and written as the callers'   *)
(* steps interleave.                                                        *)

InCall(c, pc) == bg.calls[c].pc = pc

\* caller c is in neither call
Free(c) == bg.calls[c].pc \in {"idle", "stopped"}

\* caller c moves to pc, with err the error of the SaveAll of its Stop
Moved(c, pc, err) == [bg.calls EXCEPT ![c] = [pc |-> pc, err |-> err]]

\* the cancel function cm.syncCancel holds, called: the context of its loop
\* is done
Cancelled(loops) ==
    [l \in DOMAIN loops |-> IF l = bg.cancel THEN TRUE ELSE loops[l]]

\* StartBackgroundSync up to cm.syncWg.Wait(): cancel the loop there is
StartBackgroundSync(c) ==
    /\ Free(c)
    /\ bg.made < MaxLoops
    /\ IF bg.cancel # 0
       THEN bg' = [bg EXCEPT !.loops = Cancelled(bg.loops),
                             !.calls = Moved(c, "sync wait", ErrNone)]
       ELSE bg' = [bg EXCEPT !.calls = Moved(c, "sync go", ErrNone)]
    /\ UNCHANGED <<registryVars, db, dbFile, backupVars, req>>

\* cm.syncWg.Wait() returns once every loop has exited
SyncWait(c) ==
    /\ InCall(c, "sync wait")
    /\ DOMAIN bg.loops = {}
    /\ bg' = [bg EXCEPT !.calls = Moved(c, "sync go", ErrNone)]
    /\ UNCHANGED <<registryVars, db, dbFile, backupVars, req>>

\* the new context, cm.syncCancel = cancel, cm.syncWg.Add(1) and the go
\* statement
SyncGo(c) ==
    /\ InCall(c, "sync go")
    /\ bg' = [bg EXCEPT !.cancel = bg.made + 1,
                        !.made = bg.made + 1,
                        !.loops = With(bg.loops, bg.made + 1, FALSE),
                        !.calls = Moved(c, "idle", ErrNone)]
    /\ UNCHANGED <<registryVars, db, dbFile, backupVars, req>>

\* the remote names a caller passes
BlobNames == {"", "blob"}

\* the loop making a backup ticker whatever it was given
BackupTickerAlways(store, blobName) == TRUE

\* whether the loop makes a backup ticker: backupStore != nil && blobName != ""
BackupTicker(store, blobName) == store /\ blobName # ""

\* SyncGo for a caller that passed store (whether backupStore is non-nil) and
\* blobName
SyncGoOn(c, store, blobName) ==
    /\ InCall(c, "sync go")
    /\ bg' = [bg EXCEPT !.cancel = bg.made + 1,
                        !.made = bg.made + 1,
                        !.loops = With(bg.loops, bg.made + 1, FALSE),
                        !.calls = Moved(c, "idle", ErrNone),
                        !.args = With(bg.args, bg.made + 1,
                                      [store |-> store, blobName |-> blobName]),
                        !.tickers = IF BackupTicker(store, blobName)
                                    THEN bg.tickers \cup {bg.made + 1}
                                    ELSE bg.tickers]
    /\ UNCHANGED <<registryVars, db, dbFile, backupVars, req>>

\* loop l taking the case <-ctx.Done() and going round again
LoopExitGoesOn(l) ==
    /\ l \in DOMAIN bg.loops
    /\ bg.loops[l]
    /\ UNCHANGED vars

\* loop l takes the case <-ctx.Done(): it returns and cm.syncWg.Done() runs
LoopExit(l) ==
    /\ l \in DOMAIN bg.loops
    /\ bg.loops[l]
    /\ bg' = [bg EXCEPT !.loops = Without(bg.loops, l)]
    /\ UNCHANGED <<registryVars, db, dbFile, backupVars, req>>

\* the save tick returning from the loop when SaveAllJobsToDB fails
LoopSaveEndsOnError(l) ==
    /\ l \in DOMAIN bg.loops
    /\ ~crashed
    /\ \E ok \in BOOLEAN :
          IF ok
          THEN /\ db' = Upsert(db, jobs)
               /\ dbFile' = TRUE
               /\ ret' = Returned("SaveAllJobsToDB", "", ErrNone, <<>>, <<>>)
               /\ bg' = bg
          ELSE /\ UNCHANGED <<db, dbFile>>
               /\ ret' = Returned("SaveAllJobsToDB", "", ErrPersistence, <<>>, <<>>)
               /\ bg' = [bg EXCEPT !.loops = Without(bg.loops, l)]
    /\ UNCHANGED <<jobs, entries, nextID, running, now, upd, exec, crashed,
                   backupVars, req>>

\* loop l takes the case <-syncTicker.C; select may take it even when the
\* context is done as well
LoopSave(l) ==
    /\ l \in DOMAIN bg.loops
    /\ SaveAllJobsToDB

\* loop l takes the case <-backupChan, a nil channel when it has no ticker:
\* BackupSQLite up to its comparison
LoopBackup(l) ==
    /\ l \in DOMAIN bg.loops
    /\ l \in bg.tickers
    /\ ~crashed
    /\ bg.busy = 0
    /\ bk.pc \in {"idle", "done"}
    /\ IF ~dbFile
       THEN /\ bk' = Call("done", "BackupSQLite", NoFile, FALSE, ErrOpen)
            /\ bg' = bg
       ELSE LET curChecksum == fileChecksum(db)
            IN  IF BackupSkipped(curChecksum, readLocalChecksum)
                THEN /\ bk' = Call("done", "BackupSQLite", curChecksum, FALSE, ErrNone)
                     /\ bg' = bg
                ELSE /\ bk' = Call("upload", "BackupSQLite", curChecksum, FALSE, ErrNone)
                     /\ bg' = [bg EXCEPT !.busy = l]
    /\ UNCHANGED <<registryVars, req, db, dbFile, marker, blob, tmpFile>>

\* the BackupSQLite of loop l from store.UploadFile on: the file as it is now
\* is sent, then the marker is written and the loop is back at its select
LoopUpload(l) ==
    /\ bg.busy = l
    /\ bk.pc = "upload"
    /\ \E ok \in BOOLEAN :
          IF ok
          THEN /\ blob' = <<db>>
               /\ marker' = bk.sum
               /\ bk' = Call("done", "BackupSQLite", bk.sum, TRUE, ErrNone)
          ELSE /\ UNCHANGED <<blob, marker>>
               /\ bk' = Call("done", "BackupSQLite", bk.sum, TRUE, ErrUpload)
    /\ bg' = [bg EXCEPT !.busy = 0]
    /\ UNCHANGED <<registryVars, req, db, dbFile, tmpFile>>

\* loop l is at its select, in no tick
AtSelect(l) == bg.busy # l

\* Stop, first statement: SaveAllJobsToDB, its error only logged
StopSave(c) ==
    /\ Free(c)
    /\ ~crashed
    /\ \E ok \in BOOLEAN :
          IF ok
          THEN /\ db' = Upsert(db, jobs)
               /\ dbFile' = TRUE
               /\ bg' = [bg EXCEPT !.calls = Moved(c, "stop cron", ErrNone)]
          ELSE /\ UNCHANGED <<db, dbFile>>
               /\ bg' = [bg EXCEPT !.calls = Moved(c, "stop cron", ErrPersistence)]
    /\ UNCHANGED <<registryVars, backupVars, req>>

\* Stop, second statement: cm.cron.Stop(); callbacks already running go on
StopCron(c) ==
    /\ InCall(c, "stop cron")
    /\ running' = FALSE
    /\ bg' = [bg EXCEPT !.calls = Moved(c, "stop cancel", bg.calls[c].err)]
    /\ UNCHANGED <<jobs, entries, nextID, now, upd, exec, crashed, ret, db, dbFile,
                   backupVars, req>>

\* Stop, the cancel of the loop; without a loop Stop returns here
StopCancel(c) ==
    /\ InCall(c, "stop cancel")
    /\ IF bg.cancel # 0
       THEN /\ bg' = [bg EXCEPT !.loops = Cancelled(bg.loops),
                                !.calls = Moved(c, "stop wait", bg.calls[c].err)]
            /\ ret' = ret
       ELSE /\ bg' = [bg EXCEPT !.calls = Moved(c, "stopped", bg.calls[c].err)]
            /\ ret' = Returned("Stop", "", bg.calls[c].err, <<>>, <<>>)
    /\ UNCHANGED <<jobs, entries, nextID, running, now, upd, exec, crashed, db, dbFile,
                   backupVars, req>>

\* Stop, cm.syncWg.Wait() and cm.syncCancel = nil, then the return
StopWait(c) ==
    /\ InCall(c, "stop wait")
    /\ DOMAIN bg.loops = {}
    /\ bg' = [bg EXCEPT !.cancel = 0,
                        !.calls = Moved(c, "stopped", bg.calls[c].err)]
    /\ ret' = Returned("Stop", "", bg.calls[c].err, <<>>, <<>>)
    /\ UNCHANGED <<jobs, entries, nextID, running, now, upd, exec, crashed, db, dbFile,
                   backupVars, req>>

-----------------------------------------------------------------------------
(* HandleGetJob: GetJob returns the *Job the registry holds, and the handler *)
(* encodes it after GetJob released the lock.  req.seen is the record as it *)
(* was when GetJob returned.                                                *)

\* HandleGetJob up to the return of GetJob
HandleGetJob(id) ==
    /\ ~crashed
    /\ req = NoReq
    /\ IF id \in DOMAIN jobs
       THEN /\ req' = [pc |-> "encode", id |-> id, seen |-> jobs[id]]
            /\ ret' = ret
       ELSE /\ req' = req
            /\ ret' = Returned("HandleGetJob", id, ErrNotFound, <<>>, <<>>)
    /\ UNCHANGED <<jobs, entries, nextID, running, now, upd, exec, crashed, db, dbFile,
                   backupVars, bg>>

\* the record the handler's pointer reaches: the registry's while it holds
\* that job, else the one GetJob returned
Pointee == IF req.id \in DOMAIN jobs THEN jobs[req.id] ELSE req.seen

\* json.NewEncoder(w).Encode(job) without the lock: each of LastRun and
\* NextRun is read before or after a write made meanwhile
HandleGetJobEncode ==
    /\ ~crashed
    /\ req.pc = "encode"
    /\ \E lastRun \in {req.seen.LastRun, Pointee.LastRun},
          nextRun \in {req.seen.NextRun, Pointee.NextRun} :
          ret' = Returned("HandleGetJob", req.id, ErrNone, <<>>,
                          <<[Pointee EXCEPT !.LastRun = lastRun, !.NextRun = nextRun]>>)
    /\ req' = NoReq
    /\ UNCHANGED <<jobs, entries, nextID, running, now, upd, exec, crashed, db, dbFile,
                   backupVars, bg>>

-----------------------------------------------------------------------------
(* HandleCreateJob and generateUniqueJobID *)

\* fmt.Sprintf("job_%d", time.Now().UnixNano())
TimestampID(t) == "job_" \o ToString(t)

\* the values uuid.New().String() yields in the model
Uuids == Ids

\* the runs of draws one call can make
Draws == [1..MaxAttempts -> Uuids]

RECURSIVE DrawLoop(_, _, _)
\* the loop from draw i on: the first draw that is not an id of js, or ""
\* when the attempts are used up
DrawLoop(js, draws, i) ==
    IF i > MaxAttempts THEN ""
    ELSE IF draws[i] \notin DOMAIN js THEN draws[i]
    ELSE DrawLoop(js, draws, i + 1)

\* generateUniqueJobID under the read lock: the loop, then the fallback
generateUniqueJobID(js, draws, t) ==
    IF DrawLoop(js, draws, 1) # "" THEN DrawLoop(js, draws, 1)
    ELSE TimestampID(t)

\* HandleCreateJob up to its AddJob: the decoded job, with an id made for it
\* when it has none
HandleCreateJob(j) ==
    /\ ~crashed
    /\ req = NoReq
    /\ IF j.ID = ""
       THEN \E draws \in Draws :
               LET id == generateUniqueJobID(jobs, draws, now)
               IN  /\ req' = [pc |-> "add", job |-> [j EXCEPT !.ID = id], made |-> TRUE]
                   /\ ret' = Returned("generateUniqueJobID", id, ErrNone, <<>>, <<>>)
       ELSE /\ req' = [pc |-> "add", job |-> j, made |-> FALSE]
            /\ ret' = ret
    /\ UNCHANGED <<jobs, entries, nextID, running, now, upd, exec, crashed, db, dbFile,
                   backupVars, bg>>

\* HandleCreateJob's AddJob and its response
HandleCreateJobAdd ==
    /\ ~crashed
    /\ Readers = {}
    /\ req.pc = "add"
    /\ CanAdd(req.job)
    /\ LET st == AddJobOn(Here, req.job)
       IN  /\ Install(st)
           /\ ret' = Returned("AddJob", req.job.ID, st.err, <<req.job>>, <<>>)
    /\ req' = NoReq
    /\ UNCHANGED <<running, now, upd, exec, crashed, db, dbFile, backupVars, bg>>
\* rows another writer of the database file left in it: an unknown type, an
\* enabled job whose schedule does not parse, a config that is not JSON
ForeignRows ==
    {RowOf(NewJob("b", "n1", "report", EverySecond, TRUE, Strs({"command"}), Nil, Nil)),
     RowOf(NewJob("b", "n1", BackupJob, BadSchedule, TRUE,
                  Strs({"path", "destination"}), Nil, Nil)),
     [RowOf(NewJob("a", "n2", CustomJob, EverySecond, FALSE, Strs({"command"}), Nil, Nil))
         EXCEPT !.config_json = BadJSON],
     RowOf(NewJob("a", "n2", CustomJob, EverySecond, FALSE, Strs({"command"}), Nil, Nil))}

\* the database file is written while no manager has it open
ForeignRow(r) ==
    /\ ~running
    /\ db' = [i \in DOMAIN db \cup {r.id} |-> IF i = r.id THEN r ELSE db[i]]
    /\ dbFile' = TRUE
    /\ UNCHANGED <<registryVars, backupVars, bg, req>>

-----------------------------------------------------------------------------
(* The registry and its callers *)

Next ==
    \/ \E j \in JobInputs : AddJob(j)
    \/ \E id \in Ids : RemoveJob(id)
    \/ \E id \in Ids : GetJob(id)
    \/ \E id \in Ids, def \in UpdateInputs : UpdateJobBegin(id, def)
    \/ UpdateJobRemove
    \/ UpdateJobAdd
    \/ Start

Spec == Init /\ [][Next]_vars


-----------------------------------------------------------------------------
(* Properties of the registry calls *)

\* this step is UpdateJob returning an error from its own checks
UpdateRejected ==
    /\ upd = Idle /\ upd' = Idle
    /\ ret' # ret /\ ret'.op = "UpdateJob" /\ ret'.err # ErrNone

\* this step is UpdateJob returning the error of its AddJob
UpdateAddFailed ==
    /\ upd.pc = "add" /\ upd' = Idle
    /\ ret'.op = "UpdateJob" /\ ret'.err # ErrNone

\* job j of the registry before the step is there after it, with its trigger
Kept(id, j) ==
    /\ id \in DOMAIN jobs'
    /\ jobs'[id] = j
    /\ j.CronEntryID # NoEntry => j.CronEntryID \in DOMAIN entries'

(* C1: whenever UpdateJob returns an error for an id that was in the       *)
(* registry (unknown Type, missing key, empty Schedule, unparsable          *)
(* Schedule), the original job is still in the registry, with every field   *)
(* unchanged and its trigger still registered.                              *)
C1_FailedUpdateKeepsJob ==
    [][/\ (UpdateRejected /\ ret'.id \in DOMAIN jobs) => Kept(ret'.id, jobs[ret'.id])
       /\ UpdateAddFailed => Kept(upd.id, upd.old)]_vars

\* this step is a call that failed and that C2 speaks of
FailedCall ==
    /\ ret' # ret
    /\ ret'.err # ErrNone
    /\ \/ ret'.op \in {"AddJob", "RemoveJob"}
       \/ ret'.op = "UpdateJob" /\ ret'.err = ErrNotFound

(* C2: a failed AddJob, a failed RemoveJob and an UpdateJob that fails      *)
(* because the id is unknown leave the registry map and the registered      *)
(* triggers exactly as they were.                                           *)
C2_FailedCallsChangeNothing ==
    [][FailedCall => jobs' = jobs /\ entries' = entries]_vars

\* reached: AddJob refused an unparsable schedule while the registry held a
\* job with a trigger
C2_Witness ==
    /\ ret.op = "AddJob" /\ ret.err = ErrSchedule
    /\ DOMAIN jobs # {} /\ DOMAIN entries # {}

(* C6: a successful RemoveJob(id) leaves id out of the registry and the     *)
(* job's trigger out of the scheduler; an id comes into the registry only   *)
(* through AddJob; GetJob and RemoveJob of an absent id return not-found,   *)
(* and GetJob of a present id returns its job.                              *)
C6_RemoveThenNotFound ==
    [][/\ (ret' # ret /\ ret'.op = "RemoveJob") =>
            IF ret'.id \in DOMAIN jobs
            THEN /\ ret'.err = ErrNone
                 /\ ret'.id \notin DOMAIN jobs'
                 /\ jobs[ret'.id].CronEntryID \notin DOMAIN entries'
            ELSE ret'.err = ErrNotFound
       /\ (ret' # ret /\ ret'.op = "GetJob") =>
            /\ ret'.id \notin DOMAIN jobs => ret'.err = ErrNotFound /\ ret'.val = <<>>
            /\ ret'.id \in DOMAIN jobs => ret'.err = ErrNone /\ ret'.val = <<jobs[ret'.id]>>
       /\ \A id \in Ids :
            (id \notin DOMAIN jobs /\ id \in DOMAIN jobs') =>
                \/ ret'.op = "AddJob" /\ ret'.id = id /\ ret'.err = ErrNone
                \/ upd.pc = "add" /\ upd.id = id /\ ret'.op = "UpdateJob"
                \/ ret'.op = "Start"]_vars

\* reached: RemoveJob evicted a job that had a trigger, and GetJob then found
\* nothing under its id
C6_Witness ==
    /\ ret.op = "GetJob" /\ ret.err = ErrNotFound
    /\ nextID > 0 /\ DOMAIN jobs = {} /\ DOMAIN entries = {}


-----------------------------------------------------------------------------
(* AddJob on every kind of input: a new manager, started or not, gets one   *)
(* AddJob call, after which the job is looked up and removed                *)

NextAdd ==
    \/ ret.op \in {"none", "Start"} /\ jobs = <<>> /\ \E j \in AllInputs : AddJob(j)
    \/ GetJob("a")
    \/ RemoveJob("a")
    \/ Start

SpecAdd == Init /\ [][NextAdd]_vars

\* the required keys as the specification lists them
SpecRequired(t) ==
    CASE t = "email"  -> {"to", "subject"}
      [] t = "sync"   -> {"source", "destination"}
      [] t = "backup" -> {"path", "destination"}
      [] t = "custom" -> {"command"}
      [] OTHER        -> {}

\* j has one of the four Types and every key the Type requires
Complete(j) ==
    /\ j.Type \in {"email", "sync", "backup", "custom"}
    /\ SpecRequired(j.Type) \subseteq DOMAIN j.Config

\* this step is AddJob returning
AddReturns == ret' # ret /\ ret'.op = "AddJob"

(* C3: AddJob returns a validation error and inserts nothing when the Type  *)
(* is none of email, sync, backup, custom or the Config lacks a key the     *)
(* Type requires; it returns no validation error when every required key    *)
(* is there.                                                                *)
C3_ValidationByRequiredKeys ==
    [][AddReturns =>
          IF Complete(ret'.arg[1])
          THEN ret'.err \notin {ErrType, ErrConfig}
          ELSE /\ ret'.err \in {ErrType, ErrConfig}
               /\ jobs' = jobs /\ entries' = entries]_vars

\* reached: an email job without 'to' was refused
C3_Witness ==
    /\ ret.op = "AddJob" /\ ret.err = ErrConfig
    /\ ret.arg[1].Type = EmailJob
    /\ DOMAIN ret.arg[1].Config = {"subject"}
    /\ jobs = <<>>

(* C4: AddJob of a job of one of the four Types with every required key and *)
(* a schedule that parses returns nil and GetJob then returns that job;     *)
(* when it is Enabled the job has a NextRun and a handle the scheduler      *)
(* knows.                                                                   *)
C4_ValidAddSucceeds ==
    [][/\ (AddReturns /\ Complete(ret'.arg[1])
            /\ ret'.arg[1].Schedule \in {EverySecond, EveryOther}) =>
            LET j == ret'.arg[1]
            IN  /\ ret'.err = ErrNone
                /\ j.ID \in DOMAIN jobs'
                /\ \A f \in {"ID", "Name", "Type", "Schedule", "Enabled", "Config"} :
                       jobs'[j.ID][f] = j[f]
                /\ j.Enabled => /\ jobs'[j.ID].NextRun # Nil
                                /\ jobs'[j.ID].CronEntryID # NoEntry
                                /\ jobs'[j.ID].CronEntryID \in DOMAIN entries'
       /\ (ret' # ret /\ ret'.op = "GetJob" /\ ret'.id \in DOMAIN jobs) =>
            ret'.err = ErrNone /\ ret'.val = <<jobs[ret'.id]>>]_vars

\* reached: GetJob returned an enabled backup job with NextRun and handle
C4_Witness ==
    /\ ret.op = "GetJob" /\ ret.err = ErrNone
    /\ ret.val # <<>>
    /\ ret.val[1].Type = BackupJob /\ ret.val[1].Enabled
    /\ ret.val[1].NextRun # Nil
    /\ ret.val[1].CronEntryID \in DOMAIN entries

(* C5: AddJob fails, and inserts nothing, for every job whose cron          *)
(* expression cannot be parsed, Enabled or not.                             *)
C5_UnparsableNeverInserted ==
    [][(AddReturns /\ ret'.arg[1].Schedule \notin {EverySecond, EveryOther}) =>
          ret'.err # ErrNone /\ jobs' = jobs]_vars


-----------------------------------------------------------------------------
(* The running system: jobs are added, fire, are listed and saved, and the  *)
(* process is restarted from the database file                              *)

NextRun ==
    \/ \E j \in RunInputs : AddJob(j)
    \/ \E id \in Ids : RemoveJob(id)
    \/ GetAllJobs
    \/ Start
    \/ \E e \in 1..MaxEntries, w \in Workers : Fire(e, w)
    \/ \E w \in Workers : ExecSnapshot(w)
    \/ \E w \in Workers : ExecFinish(w)
    \/ Tick
    \/ SaveAllJobsToDB
    \/ Restart

SpecRun == Init /\ [][NextRun]_vars

\* x comes strictly before y in the order the specification gives for List
ListedBefore(x, y) ==
    \/ x.LastRun # Nil /\ (y.LastRun = Nil \/ x.LastRun > y.LastRun)
    \/ x.LastRun = y.LastRun /\ NameRank(x.Name) < NameRank(y.Name)

(* C7: GetAllJobs returns every job of the registry exactly once, by        *)
(* LastRun descending, jobs without LastRun last, and jobs with the same    *)
(* LastRun (both nil, or the same instant) by Name ascending.               *)
C7_ListOrder ==
    [][(ret' # ret /\ ret'.op = "GetAllJobs") =>
          /\ Len(ret'.val) = Cardinality(DOMAIN jobs)
          /\ \A id \in DOMAIN jobs : \E i \in 1..Len(ret'.val) : ret'.val[i] = jobs[id]
          /\ \A i, k \in 1..Len(ret'.val) :
                i < k => ~ListedBefore(ret'.val[k], ret'.val[i])]_vars

\* the fields a round trip through the database is to keep
SameJobs(js1, js2) ==
    /\ DOMAIN js1 = DOMAIN js2
    /\ \A id \in DOMAIN js1 :
          \A f \in {"ID", "Name", "Type", "Schedule", "Enabled", "Config",
                     "LastRun", "NextRun"} : js1[id][f] = js2[id][f]

(* C8: when the registry has just been saved (the database holds what       *)
(* SaveAllJobsToDB writes for it), loading the database into a fresh        *)
(* registry gives the same ids and, per id, the same name, type, schedule,  *)
(* enabled flag, config, last_run and next_run.                             *)
C8_SaveLoadRoundTrip ==
    [][(Restart /\ crashed = FALSE /\ db = Upsert(db, jobs)) => SameJobs(jobs, jobs')]_vars

(* C36: a removed job does not come back: after every SaveAllJobsToDB that  *)
(* succeeds the ids of the rows of the store are the ids of the jobs of the *)
(* registry.                                                                *)
C36_RemovedJobStaysRemoved ==
    [][(SaveAllJobsToDB /\ ret'.err = ErrNone) => DOMAIN db' = DOMAIN jobs']_vars

-----------------------------------------------------------------------------
(* A process with a backup store: restore, start, serve, save, back up, end *)

NextBackup ==
    \/ RestoreSQLite
    \/ RestoreCopy
    \/ RestoreRename
    \/ RestoreMark
    \/ MainStart
    \/ \E j \in RunInputs : running /\ CanAdd(j) /\ AddJob(j)
    \/ running /\ SaveAllJobsToDB
    \/ BackupSQLite
    \/ BackupUpload
    \/ Exit

SpecBackup == Init /\ [][NextBackup]_vars

\* this step is BackupSQLite comparing the digest of an existing file
BackupCompared ==
    /\ bk.pc \in {"idle", "done"}
    /\ bk' # bk
    /\ bk'.op = "BackupSQLite"
    /\ dbFile

\* this step is store.UploadFile returning
UploadReturned == bk.pc = "upload" /\ bk'.pc = "done"

RestoreBeforeRename ==
    /\ bk' # bk
    /\ bk'.op = "RestoreSQLite"
    /\ \/ bk'.pc \in {"copy", "rename"}
       \/ bk'.pc = "done" /\ bk'.err # ErrNone

(* C10: no step of a RestoreSQLite call that ends with a missing remote     *)
(* object or a failed download changes the database file or the marker;     *)
(* after the call has returned, with or without an error, main() can go on  *)
(* to Start(), and the Start() after a failed call loads every row of the   *)
(* database file.                                                           *)
C10_FailedRestoreLeavesLocal ==
    /\ [][RestoreBeforeRename =>
             (db' = db /\ dbFile' = dbFile /\ marker' = marker)]_vars
    /\ []((~running /\ ~crashed /\ bk.pc = "done" /\ bk.op = "RestoreSQLite")
             => ENABLED MainStart)
    /\ [][(~running /\ running' /\ bk.err # ErrNone) =>
             (db' = db /\ DOMAIN jobs' = DOMAIN Stored)]_vars

\* the download broke off, the database file kept its rows and the manager
\* started from them
C10_Witness ==
    /\ bk.op = "RestoreSQLite" /\ bk.pc = "done" /\ bk.err = ErrWrite
    /\ tmpFile = PartialTmp
    /\ running
    /\ db # <<>>
    /\ DOMAIN jobs = DOMAIN db

\* this step is taken by a RestoreSQLite call
RestoreStep ==
    /\ bk' # bk
    /\ \/ bk'.op = "RestoreSQLite"
       \/ bk.op = "RestoreSQLite" /\ bk.pc # "done"

(* C11: every step of a RestoreSQLite call leaves the database file as it   *)
(* was or replaces it, in the one step of the rename, by the whole          *)
(* downloaded content; the download is written to the temporary file only,  *)
(* the rename happens only once the temporary file holds the whole          *)
(* download, and the marker is written only after the rename, with the      *)
(* digest of what the database file now holds.                              *)
C11_RestoreIsAtomic ==
    [][RestoreStep =>
          /\ \/ db' = db /\ dbFile' = dbFile
             \/ /\ bk.pc = "rename" /\ tmpFile = WholeTmp
                /\ dbFile' /\ db' = blob[1]
          /\ tmpFile' # tmpFile => bk.pc \in {"idle", "copy", "rename"}
          /\ marker' # marker =>
                /\ bk.pc = "mark"
                /\ db' = db /\ dbFile /\ marker' = fileChecksum(db)]_vars

\* the rename has replaced rows by the download and the marker is not yet
\* written
C11_Witness ==
    /\ bk.op = "RestoreSQLite" /\ bk.pc = "mark"
    /\ dbFile /\ db = blob[1] /\ db # <<>>
    /\ tmpFile = NoTmp
    /\ marker # fileChecksum(db)

-----------------------------------------------------------------------------
(* Callers that add, update and read concurrently, and never remove: every  *)
(* definition they send is one AddJob accepts                               *)

ValidUpdates == {d \in UpdateInputs : AddJobOn(Fresh, d).err = ErrNone}

NextSerial ==
    \/ \E j \in RunInputs : AddJob(j)
    \/ \E id \in Ids : GetJob(id)
    \/ GetAllJobs
    \/ \E id \in Ids, def \in ValidUpdates : UpdateJobBegin(id, def)
    \/ UpdateJobRemove
    \/ UpdateJobAdd

SpecSerial == Init /\ [][NextSerial]_vars

\* this step is a read returning while an UpdateJob of a job that was in the
\* registry is in flight
ReadDuringUpdate(op) == upd.pc = "add" /\ ret' # ret /\ ret'.op = op

(* C12: every result is that of a serial execution in which UpdateJob takes *)
(* effect at one point.  No caller removes and every update is one that     *)
(* succeeds, so in every serial order a job that was in the registry when   *)
(* its UpdateJob began is there before and after the update: a GetJob of    *)
(* its id that returns while the update is in flight finds it, and a        *)
(* GetAllJobs lists it.                                                     *)
C12_UpdateAtOnePoint ==
    [][/\ (ReadDuringUpdate("GetJob") /\ ret'.id = upd.id) => ret'.err = ErrNone
       /\ ReadDuringUpdate("GetAllJobs") =>
             \E i \in 1..Len(ret'.val) : ret'.val[i].ID = upd.id]_vars

-----------------------------------------------------------------------------
(* Goroutines calling StartBackgroundSync and Stop on one manager *)

NextSync ==
    \/ \E j \in RunInputs : jobs = <<>> /\ AddJob(j)
    \/ bg = NoSync /\ Start
    \/ \E c \in Callers : StartBackgroundSync(c)
    \/ \E c \in Callers : SyncWait(c)
    \/ \E c \in Callers : SyncGo(c)
    \/ \E l \in 1..MaxLoops : LoopExit(l)
    \/ \E l \in 1..MaxLoops : LoopSave(l)
    \/ \E c \in Callers : StopSave(c)
    \/ \E c \in Callers : StopCron(c)
    \/ \E c \in Callers : StopCancel(c)
    \/ \E c \in Callers : StopWait(c)

SpecSync == Init /\ [][NextSync]_vars

(* C13: at no time are two sync loops alive, however the steps of           *)
(* StartBackgroundSync and Stop calls interleave.                           *)
C13_OneLoop == Cardinality(DOMAIN bg.loops) <= 1

\* this step is the SaveAllJobsToDB of caller c's Stop
StopSaves(c) == Free(c) /\ bg'.calls[c].pc = "stop cron"

(* C14: Stop stops the scheduler first, then cancels the sync loop and      *)
(* waits for it, and saves last: when the SaveAll of a Stop runs, the       *)
(* scheduler is stopped and no sync loop is alive.                          *)
C14_StopSavesLast ==
    [][\A c \in Callers :
          StopSaves(c) => (~running /\ DOMAIN bg.loops = {})]_vars

-----------------------------------------------------------------------------
(* One manager from Start to Stop: jobs are added, the scheduler fires them, *)
(* the sync loop saves, and main() calls Stop                               *)

\* no Stop has begun
Serving == \A c \in Callers : InCall(c, "idle")

NextStop ==
    \/ \E j \in RunInputs : Serving /\ AddJob(j)
    \/ Serving /\ Start
    \/ Tick
    \/ \E e \in 1..MaxEntries, w \in Workers : Fire(e, w)
    \/ \E w \in Workers : ExecSnapshot(w)
    \/ \E w \in Workers : ExecFinish(w)
    \/ bg.made = 0 /\ StartBackgroundSync("c1")
    \/ SyncGo("c1")
    \/ \E l \in 1..MaxLoops : LoopExit(l)
    \/ \E l \in 1..MaxLoops : LoopSave(l)
    \/ StopSave("c1")
    \/ StopCron("c1")
    \/ StopCancel("c1")
    \/ StopWait("c1")

SpecStop == Init /\ [][NextStop]_vars

\* the SaveAll of a Stop has taken its snapshot
StopHasSaved ==
    \E c \in Callers : bg.calls[c].pc \in {"stop cron", "stop cancel", "stop wait", "stopped"}

(* C15: when Stop returns and its SaveAll did not fail, every job of the    *)
(* registry has a row in the store that equals its in-memory state, and     *)
(* from the snapshot of that SaveAll on the registry does not change.       *)
C15_StopLosesNothing ==
    /\ [][(ret' # ret /\ ret'.op = "Stop" /\ ret'.err = ErrNone) =>
             \A id \in DOMAIN jobs' :
                id \in DOMAIN db' /\ db'[id] = RowOf(jobs'[id])]_vars
    /\ [][StopHasSaved => jobs' = jobs]_vars

-----------------------------------------------------------------------------
(* Requests that create jobs, with an id of their own or without *)

\* the jobs the requests carry: with the id a client chose, or with none
CreateInputs ==
    {NewJob(id, "n1", CustomJob, EverySecond, FALSE, Strs({"command"}), Nil, Nil) :
        id \in Ids \cup {"", TimestampID(SubSec)}}

NextCreate ==
    \/ \E j \in CreateInputs : HandleCreateJob(j)
    \/ HandleCreateJobAdd
    \/ \E id \in Ids : RemoveJob(id)
    \/ \E id \in Ids : GetJob(id)

SpecCreate == Init /\ [][NextCreate]_vars

\* this step is generateUniqueJobID returning
Generated == req = NoReq /\ req' # req /\ req'.made

(* C16: the id generateUniqueJobID returns is not the id of a job in the    *)
(* registry when it returns, whether it is a random draw or the timestamp   *)
(* fallback, and the job created with it replaces no job.                   *)
C16_GeneratedIdIsFree ==
    /\ [][Generated => req'.job.ID \notin DOMAIN jobs]_vars
    /\ [][(req # NoReq /\ req' = NoReq /\ req.made /\ ret'.err = ErrNone) =>
             req.job.ID \notin DOMAIN jobs]_vars

-----------------------------------------------------------------------------
(* Callers that set NextRun themselves, on a manager that runs, saves and   *)
(* restarts                                                                 *)

\* jobs as a client may send them: "next_run" is a field of the JSON body
FieldInputs ==
    {NewJob("a", "n1", CustomJob, EverySecond, TRUE, Strs({"command"}), Nil, Nil),
     NewJob("a", "n1", CustomJob, EverySecond, FALSE, Strs({"command"}), Nil, SubSec)}

NextFields ==
    \/ \E j \in FieldInputs : AddJob(j)
    \/ \E id \in Ids, def \in FieldInputs : UpdateJobBegin(id, def)
    \/ UpdateJobRemove
    \/ UpdateJobAdd
    \/ Start
    \/ Tick
    \/ \E e \in 1..MaxEntries, w \in Workers : Fire(e, w)
    \/ \E w \in Workers : ExecSnapshot(w)
    \/ \E w \in Workers : ExecFinish(w)
    \/ SaveAllJobsToDB
    \/ Restart

SpecFields == Init /\ [][NextFields]_vars

\* job j holds a trigger registered with the scheduler
Registered(j) ==
    /\ j.CronEntryID # NoEntry
    /\ j.CronEntryID \in DOMAIN entries
    /\ entries[j.CronEntryID].job = j.ID

(* C17: in every state, a job of the registry has a NextRun exactly when it *)
(* holds a trigger registered with the scheduler.                           *)
C17_NextRunIffRegistered ==
    \A id \in DOMAIN jobs : (jobs[id].NextRun # Nil) <=> Registered(jobs[id])

-----------------------------------------------------------------------------
(* A manager that starts from a database file other writers have touched *)

NextLoad ==
    \/ \E r \in ForeignRows : ForeignRow(r)
    \/ Start
    \/ \E j \in RunInputs : running /\ AddJob(j)
    \/ running /\ SaveAllJobsToDB
    \/ Exit

SpecLoad == Init /\ [][NextLoad]_vars

\* AddJob accepts the job LoadJobsFromDB builds from the row
Admitted(row) == AddJobOn(Fresh, JobOf(row)).err = ErrNone

\* the ids of the rows of the file that AddJob accepts
AdmittedIds == {id \in DOMAIN Stored : Admitted(Stored[id])}

-----------------------------------------------------------------------------
(* The scheduler running callbacks on two goroutines beside the callers of  *)
(* the registry; an Execute may succeed or return an error                  *)

Pool == {"w1", "w2"}

NextExec ==
    \/ \E j \in RunInputs : AddJob(j)
    \/ \E id \in Ids, def \in ValidUpdates : UpdateJobBegin(id, def)
    \/ UpdateJobRemove
    \/ UpdateJobAdd
    \/ Start
    \/ Tick
    \/ \E e \in 1..MaxEntries, w \in Pool : Fire(e, w)
    \/ \E w \in Pool : ExecSnapshot(w)
    \/ \E w \in Pool : ExecFinish(w)
    \/ \E w \in Pool : ExecFailed(w)

SpecExec == Init /\ [][NextExec]_vars

\* this step is the end of a dispatch whose Execute returned an error
ExecuteFailed == ret' # ret /\ ret'.op = "Execute" /\ ret'.err = ErrExecute

(* C19: the dispatch of a job whose Execute returned an error removes no    *)
(* job, touches no trigger, leaves every other job as it was, and changes   *)
(* of the job itself only LastRun (now the time of the dispatch) and, when  *)
(* it holds a trigger, NextRun (now the trigger's next time): what a        *)
(* dispatch whose Execute succeeded does.                                   *)
C19_FailedExecuteOnlyLogs ==
    [][ExecuteFailed =>
          /\ entries' = entries
          /\ DOMAIN jobs' = DOMAIN jobs
          /\ \A i \in DOMAIN jobs \ {ret'.id} : jobs'[i] = jobs[i]
          /\ ret'.id \in DOMAIN jobs =>
                LET j == jobs[ret'.id]
                IN  jobs'[ret'.id] =
                       [j EXCEPT !.LastRun = now,
                                 !.NextRun = IF j.CronEntryID # NoEntry
                                             THEN EntryNextOf(entries, j.CronEntryID)
                                             ELSE j.NextRun]]_vars

\* a job after a dispatch that failed: there, enabled, registered, LastRun set
C19_Witness ==
    /\ ret.op = "Execute" /\ ret.err = ErrExecute
    /\ ret.id \in DOMAIN jobs
    /\ jobs[ret.id].Enabled
    /\ Registered(jobs[ret.id])
    /\ jobs[ret.id].LastRun = now
    /\ jobs[ret.id].NextRun > now

\* the callbacks whose Execute is running
Executing == {w \in DOMAIN exec : exec[w].pc = "execute"}

(* C20: while an Execute runs its callback holds cm.mu in neither mode, and *)
(* every call of AddJob, RemoveJob, UpdateJob, GetJob and GetAllJobs and    *)
(* every step of another callback that takes the lock can be taken.         *)
C20_ExecuteHoldsNoLock ==
    (Executing # {} /\ ~crashed) =>
        /\ \A w \in Executing : exec[w].lock = "none"
        /\ \A j \in RunInputs : CanAdd(j) => ENABLED AddJob(j)
        /\ \A id \in Ids : ENABLED RemoveJob(id) /\ ENABLED GetJob(id)
        /\ ENABLED GetAllJobs
        /\ upd.pc = "idle" =>
              \A id \in Ids, def \in ValidUpdates : ENABLED UpdateJobBegin(id, def)
        /\ upd.pc = "remove" => ENABLED UpdateJobRemove
        /\ (upd.pc = "add" /\ CanAdd(upd.def)) => ENABLED UpdateJobAdd
        /\ \A w \in DOMAIN exec : exec[w].pc = "snapshot" => ENABLED ExecSnapshot(w)
        /\ \A w \in Executing : ENABLED ExecFinish(w)

\* one Execute runs while another callback waits to read the job and an
\* UpdateJob is between its RemoveJob and its AddJob
C20_Witness ==
    /\ Cardinality(Executing) = 1
    /\ \E w \in DOMAIN exec : exec[w].pc = "snapshot"
    /\ upd.pc = "add"

\* the job under the id of callback w is not the one w read: its Name, Type
\* or Config differ from the copy w took
Replaced(w) ==
    /\ exec[w].id \in DOMAIN jobs
    /\ \/ jobs[exec[w].id].Name # exec[w].Name
       \/ jobs[exec[w].id].Type # exec[w].Type
       \/ jobs[exec[w].id].Config # exec[w].Config

(* C38: the end of a callback writes LastRun and NextRun only to the        *)
(* definition it executed: when the job under its id was replaced while     *)
(* Execute ran, the end of the callback leaves the replacing job as it is.  *)
C38_PostStepWritesExecutedJob ==
    [][\A w \in DOMAIN exec :
          (exec[w].pc = "execute" /\ (ExecFinish(w) \/ ExecFailed(w)) /\ Replaced(w)) =>
              jobs'[exec[w].id] = jobs[exec[w].id]]_vars

-----------------------------------------------------------------------------
(* The dispatch callbacks beside AddJob and RemoveJob *)

NextDispatch ==
    \/ \E j \in RunInputs : AddJob(j)
    \/ \E id \in Ids : RemoveJob(id)
    \/ Start
    \/ \E e \in 1..MaxEntries, w \in Pool : Fire(e, w)
    \/ \E w \in Pool : ExecSnapshot(w)
    \/ \E w \in Pool : ExecFinish(w)
    \/ \E w \in Pool : ExecFailed(w)
    \/ Tick

SpecDispatch == Init /\ [][NextDispatch]_vars

\* the callbacks in Execute whose job is no longer in the registry
Orphaned == {w \in DOMAIN exec : exec[w].pc = "execute" /\ exec[w].id \notin DOMAIN jobs}

(* C21: when the job of a callback has been removed while its Execute ran,  *)
(* the end of the callback changes nothing: no job is inserted, no job is   *)
(* changed, no trigger is added or removed.                                 *)
C21_RemovedMidFlightIsNoOp ==
    [][(\E w \in Orphaned : ExecFinish(w) \/ ExecFailed(w)) =>
          (jobs' = jobs /\ entries' = entries /\ nextID' = nextID)]_vars

\* RemoveJob has just removed the job whose Execute is running
C21_Witness ==
    /\ Orphaned # {}
    /\ ret.op = "RemoveJob" /\ ret.err = ErrNone
    /\ \E w \in Orphaned : exec[w].id = ret.id
    /\ jobs # <<>>

\* the callbacks about to read a job that is absent or disabled
Idling == {w \in DOMAIN exec : /\ exec[w].pc = "snapshot"
                               /\ (exec[w].id \in DOMAIN jobs => ~jobs[exec[w].id].Enabled)}

(* C22: AddJob of a disabled job registers no trigger; a callback that      *)
(* finds its id absent or disabled ends without Execute and without a write *)
(* to the registry; a callback goes on to Execute only for a job it found   *)
(* enabled.                                                                 *)
C22_DisabledNeverExecuted ==
    [][/\ \A j \in RunInputs : (AddJob(j) /\ ~j.Enabled) =>
              (entries' = entries /\ jobs'[j.ID].CronEntryID = NoEntry)
       /\ \A w \in Idling : ExecSnapshot(w) => (w \notin DOMAIN exec' /\ jobs' = jobs)
       /\ \A w \in DOMAIN exec : (exec[w].pc = "snapshot" /\ ExecSnapshot(w)
                                  /\ w \in DOMAIN exec') =>
              (exec[w].id \in DOMAIN jobs /\ jobs[exec[w].id].Enabled
               /\ exec'[w].pc = "execute")]_vars

\* a trigger has fired for an id whose job in the registry is disabled
C22_Witness ==
    \E w \in Idling : exec[w].id \in DOMAIN jobs /\ jobs[exec[w].id].LastRun = Nil

(* C35: in every state the triggers the scheduler holds are exactly the     *)
(* handles the jobs of the registry hold: every trigger is the one its      *)
(* id's job points to, so there is at most one per id and none for an id    *)
(* that was replaced or removed, and every handle names a trigger.          *)
C35_TriggersAreHandles ==
    /\ \A e \in DOMAIN entries :
           /\ entries[e].job \in DOMAIN jobs
           /\ jobs[entries[e].job].CronEntryID = e
    /\ \A id \in DOMAIN jobs :
           jobs[id].CronEntryID # NoEntry => jobs[id].CronEntryID \in DOMAIN entries

-----------------------------------------------------------------------------
(* One trigger: AddJob runs only until a trigger is registered, and the     *)
(* scheduler runs its callbacks on two goroutines                           *)

NextOverlap ==
    \/ \E j \in RunInputs : nextID = 0 /\ AddJob(j)
    \/ Start
    \/ Pass(LateTime)
    \/ \E e \in 1..MaxEntries, w \in Pool : Fire(e, w)
    \/ \E w \in Pool : ExecSnapshot(w)
    \/ \E w \in Pool : ExecFinish(w)

SpecOverlap == Init /\ [][NextOverlap]_vars

(* C23: at most one execution of a job is in progress at any time: no two   *)
(* callbacks are in Execute for the same id.  Only one trigger is ever      *)
(* registered here, so two callbacks of one id are two fires of one trigger. *)
C23_OneExecutionPerJob ==
    \A w1, w2 \in DOMAIN exec :
        (exec[w1].pc = "execute" /\ exec[w2].pc = "execute" /\ exec[w1].id = exec[w2].id)
            => w1 = w2

(* C24: the LastRun recorded for an id changes only at the end of a         *)
(* dispatch callback of that id; no other step changes the LastRun of an id *)
(* that stays in the registry, and a successful UpdateJob leaves the id     *)
(* with the LastRun it had.                                                 *)
C24_LastRunOnlyByDispatch ==
    [][/\ \A id \in DOMAIN jobs \cap DOMAIN jobs' :
              jobs'[id].LastRun # jobs[id].LastRun =>
                  \E w \in DOMAIN exec : /\ exec[w].pc = "execute" /\ exec[w].id = id
                                         /\ (ExecFinish(w) \/ ExecFailed(w))
       /\ (upd.pc = "add" /\ UpdateJobAdd /\ ret'.err = ErrNone) =>
              jobs'[upd.id].LastRun = upd.old.LastRun]_vars

\* this step is a call of op on the id under update, returning between the
\* RemoveJob and the AddJob of an UpdateJob
WriteDuringUpdate(op) ==
    upd.pc = "add" /\ ret' # ret /\ ret'.op = op /\ ret'.id = upd.id

(* C25: an UpdateJob that succeeds is atomic for the other callers: between *)
(* its removal of the old job and its insertion of the new one no GetJob of *)
(* the id fails, no GetAllJobs misses the id, and no AddJob or RemoveJob of  *)
(* the id changes the registry or the scheduler.                            *)
C25_UpdateIsAtomic ==
    [][/\ WriteDuringUpdate("GetJob") => ret'.err = ErrNone
       /\ ReadDuringUpdate("GetAllJobs") =>
             upd.id \in {ret'.val[i].ID : i \in 1..Len(ret'.val)}
       /\ (WriteDuringUpdate("AddJob") \/ WriteDuringUpdate("RemoveJob")) =>
             (jobs' = jobs /\ entries' = entries /\ nextID' = nextID)]_vars

\* the triggers the scheduler es holds for an id
TriggersOf(es, id) == {e \in DOMAIN es : es[e].job = id}

(* C26: AddJob of a job whose id is already in the registry ends as one     *)
(* AddJob of that job does: the scheduler holds exactly one trigger for the *)
(* id when the job is Enabled and none when it is not.                      *)
C26_AddJobIdempotent ==
    [][\A j \in RunInputs :
          (j.ID \in DOMAIN jobs /\ AddJob(j) /\ ret'.err = ErrNone) =>
              Cardinality(TriggersOf(entries', j.ID)) = IF j.Enabled THEN 1 ELSE 0]_vars

-----------------------------------------------------------------------------
(* UpdateJob with definitions that carry another ID or none, enabled and    *)
(* disabled, each followed by lookups                                       *)

NewDefs ==
    {NewJob("b", "n2", CustomJob, EveryOther, TRUE, Strs({"command"}), Nil, Nil),
     NewJob("", "n1", SyncJob, EverySecond, FALSE, Strs({"source", "destination"}),
            Nil, Nil)}

NextUpdate ==
    \/ \E j \in RunInputs : AddJob(j)
    \/ \E id \in Ids, def \in NewDefs : UpdateJobBegin(id, def)
    \/ UpdateJobRemove
    \/ UpdateJobAdd
    \/ \E id \in Ids : GetJob(id)
    \/ Start

SpecUpdate == Init /\ [][NextUpdate]_vars

\* job j carries the Name, Type, Schedule, Enabled and Config of definition d
SameDefinition(j, d) ==
    /\ j.Name = d.Name /\ j.Type = d.Type /\ j.Schedule = d.Schedule
    /\ j.Enabled = d.Enabled /\ j.Config = d.Config

(* C27: when UpdateJob(id, newDef) succeeds, the job under id has newDef's  *)
(* Name, Type, Schedule, Enabled and Config and ID = id; no job appears     *)
(* under the ID newDef carried; the trigger of the old definition is gone;  *)
(* the job holds a trigger, on the new schedule, exactly when newDef is     *)
(* Enabled; and the GetJob(id) that follows returns that job.               *)
C27_UpdateInstallsNewDef ==
    [][/\ (upd.pc = "add" /\ UpdateJobAdd /\ ret'.err = ErrNone) =>
             LET id == upd.id
                 def == upd.def
                 new == jobs'[id]
             IN  /\ id \in DOMAIN jobs'
                 /\ new.ID = id
                 /\ SameDefinition(new, def)
                 /\ def.ID # id => (def.ID \in DOMAIN jobs' <=> def.ID \in DOMAIN jobs)
                 /\ \A i \in DOMAIN jobs : jobs'[i] = jobs[i] \/ i = id
                 /\ upd.old.CronEntryID \notin DOMAIN entries'
                 /\ new.CronEntryID # NoEntry <=> def.Enabled
                 /\ def.Enabled =>
                        /\ new.CronEntryID \in DOMAIN entries'
                        /\ entries'[new.CronEntryID].job = id
                        /\ entries'[new.CronEntryID].schedule = def.Schedule
                 /\ ~def.Enabled => entries' = entries
       /\ \A id \in Ids :
             (/\ upd = Idle /\ ret.op = "UpdateJob" /\ ret.err = ErrNone /\ ret.id = id
              /\ GetJob(id)) =>
                 /\ ret'.err = ErrNone
                 /\ ret'.val[1].ID = id
                 /\ SameDefinition(ret'.val[1], ret.arg[1])]_vars

\* UpdateJob has replaced an enabled job by a disabled definition that came
\* without the id
C27_Witness ==
    /\ upd = Idle
    /\ ret.op = "UpdateJob" /\ ret.err = ErrNone
    /\ ret.arg[1].ID # ret.id /\ ~ret.arg[1].Enabled
    /\ ret.id \in DOMAIN jobs /\ ~jobs[ret.id].Enabled
    /\ nextID > 0

-----------------------------------------------------------------------------
(* One caller starts sync loops, with and without a backup store, and stops *)
(* the manager, while a job is added; each loop saves and backs up          *)

NextLoop ==
    \/ \E j \in RunInputs : jobs = <<>> /\ AddJob(j)
    \/ StartBackgroundSync("c1")
    \/ SyncWait("c1")
    \/ \E store \in BOOLEAN, blobName \in BlobNames : SyncGoOn("c1", store, blobName)
    \/ \E l \in 1..MaxLoops : AtSelect(l) /\ LoopExit(l)
    \/ \E l \in 1..MaxLoops : AtSelect(l) /\ LoopSave(l)
    \/ \E l \in 1..MaxLoops : LoopBackup(l)
    \/ \E l \in 1..MaxLoops : LoopUpload(l)
    \/ StopSave("c1")
    \/ StopCron("c1")
    \/ StopCancel("c1")
    \/ StopWait("c1")

SpecLoop == Init /\ [][NextLoop]_vars

(* C28: whenever the marker exists and no backup or restore is under way,   *)
(* its content is the digest of the content last uploaded or downloaded,    *)
(* which is the content of the remote object; and a failed upload leaves    *)
(* the marker as it was.                                                    *)
C28_MarkerIsDigestOfRemote ==
    /\ (bk.pc \in {"idle", "done"} /\ marker # NoFile) =>
           (blob # NoFile /\ marker = fileChecksum(blob[1]))
    /\ (bk.pc = "done" /\ bk.err = ErrUpload) => ~BackupSkipped(bk.sum, marker)


(* C40: while a BackupSQLite of a loop is between its digest and the end of *)
(* its upload no step writes the database file, and so an upload that       *)
(* succeeds leaves the marker with the digest of the content it sent.       *)
C40_NoSaveDuringBackup ==
    [][/\ bg.busy # 0 => (db' = db /\ dbFile' = dbFile)
       /\ \A l \in DOMAIN bg.loops :
              (LoopUpload(l) /\ bk'.err = ErrNone) =>
                  (blob' # NoFile /\ marker' = fileChecksum(blob'[1]))]_vars

\* loop l was given a Storage capability: a store and a remote name
Capable(l) == bg.args[l].store /\ bg.args[l].blobName # ""

(* C29: a loop started with a nil store or an empty remote name never takes *)
(* a backup tick; while no living loop has a Storage capability no          *)
(* BackupSQLite runs and neither the remote object nor the marker changes;  *)
(* and such a loop, at its select, still takes its save tick.               *)
C29_NoBackupWithoutStore ==
    [][/\ \A l \in DOMAIN bg.loops : LoopBackup(l) => Capable(l)
       /\ (\A l \in DOMAIN bg.loops : ~Capable(l)) =>
              (bk' = bk /\ blob' = blob /\ marker' = marker)
       /\ \A l \in DOMAIN bg.loops :
              (~Capable(l) /\ ~crashed) => ENABLED (AtSelect(l) /\ LoopSave(l))]_vars

\* the only loop made so far was given no store, and it has saved a job
C29_Witness ==
    /\ bg.made = 1
    /\ 1 \in DOMAIN bg.loops
    /\ ~bg.args[1].store
    /\ ret.op = "SaveAllJobsToDB" /\ ret.err = ErrNone
    /\ dbFile /\ db # <<>>
    /\ blob = NoFile /\ marker = NoFile

-----------------------------------------------------------------------------
(* The sync loops of one caller under the scheduling of Go: a select whose  *)
(* case <-ctx.Done() is ready takes it sooner or later, since select picks  *)
(* at random among the ready cases and the tickers are not always ready;    *)
(* an upload in progress returns.                                           *)

NextCancel ==
    \/ StartBackgroundSync("c1")
    \/ SyncWait("c1")
    \/ \E store \in BOOLEAN : SyncGoOn("c1", store, "blob")
    \/ \E l \in 1..MaxLoops : AtSelect(l) /\ LoopExit(l)
    \/ \E l \in 1..MaxLoops : AtSelect(l) /\ LoopSave(l)
    \/ \E l \in 1..MaxLoops : LoopBackup(l)
    \/ \E l \in 1..MaxLoops : LoopUpload(l)
    \/ StopSave("c1")
    \/ StopCron("c1")
    \/ StopCancel("c1")
    \/ StopWait("c1")

SpecCancel ==
    /\ Init /\ [][NextCancel]_vars
    /\ \A l \in 1..MaxLoops : SF_vars(AtSelect(l) /\ LoopExit(l))
    /\ \A l \in 1..MaxLoops : WF_vars(LoopUpload(l))

\* loop l was made and has returned
Stopped(l) == l <= bg.made /\ l \notin DOMAIN bg.loops

(* C30: a loop whose context is cancelled eventually returns; a loop that   *)
(* has returned is never alive again and takes no tick; and while no loop   *)
(* is alive the database file is written by Stop only and no backup runs.   *)
C30_CancelledLoopStops ==
    /\ \A l \in 1..MaxLoops : (l \in DOMAIN bg.loops /\ bg.loops[l]) ~> Stopped(l)
    /\ [][/\ \A l \in 1..MaxLoops :
                Stopped(l) => /\ Stopped(l)'
                              /\ ~LoopSave(l) /\ ~LoopBackup(l) /\ ~LoopUpload(l)
          /\ (bg.made > 0 /\ DOMAIN bg.loops = {}) =>
                /\ (db' # db \/ dbFile' # dbFile) => StopSave("c1")
                /\ backupVars' = backupVars]_vars

\* Stop has cancelled the only loop made, after it saved and backed up, and
\* has seen it return
C30_Witness ==
    /\ bg.made = 1 /\ Stopped(1)
    /\ InCall("c1", "stopped")
    /\ ret.op = "Stop"
    /\ dbFile /\ blob # NoFile /\ marker # NoFile

\* what dispatch depends on: the scheduler, its triggers, the callbacks
dispatchVars == <<jobs, entries, nextID, running, exec, crashed>>

(* C31: a failed SaveAll or Backup of a sync loop neither ends the loop nor *)
(* touches dispatch: the step that fails leaves the loops, the scheduler,   *)
(* the registry and the callbacks as they were, and after it the loop, back *)
(* at its select, can take the tick of the same kind again.                 *)
C31_LoopSurvivesFailures ==
    [][/\ \A l \in DOMAIN bg.loops :
              (AtSelect(l) /\ LoopSave(l) /\ ret'.err = ErrPersistence) =>
                  (bg' = bg /\ dispatchVars' = dispatchVars)
       /\ \A l \in DOMAIN bg.loops :
              (LoopBackup(l) /\ bk'.err = ErrOpen) =>
                  (bg' = bg /\ dispatchVars' = dispatchVars)
       /\ \A l \in DOMAIN bg.loops :
              (LoopUpload(l) /\ bk'.err = ErrUpload) =>
                  (bg'.loops = bg.loops /\ AtSelect(l)' /\ dispatchVars' = dispatchVars)
       /\ \A l \in DOMAIN bg.loops :
              (ret.op = "SaveAllJobsToDB" /\ ret.err = ErrPersistence /\ AtSelect(l)) =>
                  ENABLED (AtSelect(l) /\ LoopSave(l))
       /\ \A l \in DOMAIN bg.loops \cap bg.tickers :
              (bk.pc = "done" /\ bk.err # ErrNone /\ bg.busy = 0) =>
                  ENABLED LoopBackup(l)]_vars

\* a loop is alive after a save of its tick and an upload of its tick failed
C31_Witness ==
    /\ ret.op = "SaveAllJobsToDB" /\ ret.err = ErrPersistence
    /\ bk.pc = "done" /\ bk.err = ErrUpload
    /\ \E l \in DOMAIN bg.loops : l \in bg.tickers /\ AtSelect(l) /\ ~bg.loops[l]

-----------------------------------------------------------------------------
(* Jobs of several Types, one of them replaced under its id by a job of     *)
(* another Type, with Configs that Validate accepts                         *)

TypedInputs ==
    {NewJob("b", "n1", CustomJob, EverySecond, TRUE, Strs({"command"}), Nil, Nil),
     NewJob("b", "n2", EmailJob, EverySecond, TRUE, Strs({"to", "subject"}), Nil, Nil),
     NewJob("a", "n1", SyncJob, EverySecond, TRUE, Strs({"source", "destination"}),
            Nil, Nil),
     NewJob("a", "n2", CustomJob, EverySecond, TRUE, [k \in {"command"} |-> "num"],
            Nil, Nil)}

NextTyped ==
    \/ \E j \in TypedInputs : AddJob(j)
    \/ Start
    \/ Tick
    \/ \E e \in 1..MaxEntries, w \in Workers : Fire(e, w)
    \/ \E w \in Workers : ExecSnapshot(w)
    \/ \E w \in Workers : ExecFinish(w)
    \/ \E w \in Workers : ExecFailed(w)

SpecTyped == Init /\ [][NextTyped]_vars

(* C32: a callback that finds its job present and Enabled goes on to one    *)
(* Execute, of the executor of the Type it read and with the Config it      *)
(* read; what it read stays what it runs, whatever happens to the job in    *)
(* the registry meanwhile, and the end of that Execute ends the callback.   *)
C32_OneExecutePerFire ==
    [][/\ \A w \in DOMAIN exec :
              (exec[w].pc = "snapshot" /\ ExecSnapshot(w)
               /\ exec[w].id \in DOMAIN jobs /\ jobs[exec[w].id].Enabled) =>
                  /\ w \in DOMAIN exec' /\ exec'[w].pc = "execute"
                  /\ exec'[w].Type = jobs[exec[w].id].Type
                  /\ exec'[w].Type \in executors
                  /\ exec'[w].Config = jobs[exec[w].id].Config
       /\ \A w \in DOMAIN exec :
              (exec[w].pc = "execute" /\ w \in DOMAIN exec') => exec'[w] = exec[w]
       /\ \A w \in DOMAIN exec :
              (exec[w].pc = "execute" /\ (ExecFinish(w) \/ ExecFailed(w))) =>
                  /\ crashed' = ExecutePanics(exec[w].Type, exec[w].Config)
                  /\ ~crashed' => w \notin DOMAIN exec']_vars

\* a callback is in the Execute of the Type it read while the registry holds
\* a job of another Type under its id
C32_Witness ==
    \E w \in DOMAIN exec :
        /\ exec[w].pc = "execute"
        /\ exec[w].id \in DOMAIN jobs
        /\ jobs[exec[w].id].Type # exec[w].Type

(* C34: a Config that the Validate of its Type accepts is executed by the   *)
(* Execute of that Type to a return: the callback of a job whose Config     *)
(* passes Validate does not end in a panic.                                 *)
C34_ValidConfigNeverPanics ==
    [][\A w \in DOMAIN exec :
          (exec[w].pc = "execute" /\ ExecFinish(w)
           /\ Validate(exec[w].Type, exec[w].Config)) => ~crashed']_vars

(* C37: the restore at startup never replaces a local store that is newer  *)
(* than the backup: every row the store holds when the process starts is    *)
(* still in it, unchanged, when RestoreSQLite has put the download in       *)
(* place, so no job saved locally is lost.                                  *)
C37_RestoreKeepsNewerLocal ==
    [][(bk.pc = "rename" /\ RestoreRename /\ dbFile) =>
          \A id \in DOMAIN db : id \in DOMAIN db' /\ db'[id] = db[id]]_vars

-----------------------------------------------------------------------------
(* Saves between the calls and the callbacks that change the registry *)

NextSave ==
    \/ \E j \in RunInputs : AddJob(j)
    \/ \E id \in Ids : RemoveJob(id)
    \/ Start
    \/ Tick
    \/ \E e \in 1..MaxEntries, w \in Workers : Fire(e, w)
    \/ \E w \in Workers : ExecSnapshot(w)
    \/ \E w \in Workers : ExecFinish(w)
    \/ SaveAllJobsToDB

SpecSave == Init /\ [][NextSave]_vars

(* C33: a SaveAllJobsToDB that succeeds leaves, for every job of the        *)
(* registry as it is at that step, the row of that job's values under its   *)
(* id, replacing the row that was there, and leaves every other row; one    *)
(* that fails changes no row.  The registry is not changed by either.       *)
C33_SaveIsOneTransaction ==
    [][SaveAllJobsToDB =>
          /\ jobs' = jobs
          /\ ret'.err = ErrNone =>
                /\ dbFile'
                /\ \A id \in DOMAIN jobs : id \in DOMAIN db' /\ db'[id] = RowOf(jobs[id])
                /\ \A id \in DOMAIN db' \ DOMAIN jobs : id \in DOMAIN db /\ db'[id] = db[id]
          /\ ret'.err # ErrNone => db' = db]_vars

\* a save has replaced the row of a job that has run since the row was written
C33_Witness ==
    /\ ret.op = "SaveAllJobsToDB" /\ ret.err = ErrNone
    /\ \E id \in DOMAIN jobs : jobs[id].LastRun # Nil /\ db[id] = RowOf(jobs[id])
    /\ Cardinality(DOMAIN db) = 2

-----------------------------------------------------------------------------
(* One job, its dispatch callbacks, and GET requests for it *)

NextRead ==
    \/ \E j \in RunInputs : jobs = <<>> /\ AddJob(j)
    \/ Start
    \/ Tick
    \/ \E e \in 1..MaxEntries, w \in Workers : Fire(e, w)
    \/ \E w \in Workers : ExecSnapshot(w)
    \/ \E w \in Workers : ExecFinish(w)
    \/ \E id \in Ids : HandleGetJob(id)
    \/ HandleGetJobEncode

SpecRead == Init /\ [][NextRead]_vars

(* C39: every read of a job's LastRun and NextRun happens under the         *)
(* registry lock: no callback writes LastRun and NextRun of a job while a   *)
(* caller of GetJob is reading the record it was handed, and the response   *)
(* holds the LastRun and NextRun of one state of the job.                   *)
C39_ReadsUnderLock ==
    [][/\ \A w \in DOMAIN exec :
              (exec[w].pc = "execute" /\ ExecFinish(w) /\ jobs' # jobs) =>
                  ~(req.pc = "encode" /\ req.id = exec[w].id)
       /\ (req.pc = "encode" /\ HandleGetJobEncode) =>
              \/ ret'.val[1] = req.seen
              \/ ret'.val[1] = Pointee]_vars

=========================================================================
